---- MODULE Spec2Model ----
(***************************************************************************)
(* Package assembly and scoring of the trip planner.                       *)
(*                                                                         *)
(*   planner/services/scoring.py          score_package and its components *)
(*   planner/services/fx.py               money quantization, conversion   *)
(*   planner/services/package_builder.py  build_packages_for_plan          *)
(*                                                                         *)
(* Number representation.  Money is an integer number of cents; a Decimal  *)
(* that has not been quantized yet (a price divided by a number of nights) *)
(* is an integer number of 1/SubCent cents.  Scores are integers in        *)
(* hundredths of a point (55.0 is 5500).  Time is an integer number of     *)
(* hours.  Python's round(x, 2) is round-half-even on the exact value.     *)
(***************************************************************************)
EXTENDS Integers, Sequences, FiniteSets, TLC

(***************************************************************************)
(* Bounds of the model.                                                    *)
(***************************************************************************)
StartClock == 24
TickHours == 12
MaxClock == 40
MaxBuilds == 2

\* absent JSON key / None
NoVal == 0 - 1

\* a Decimal that is not quantized is an integer number of 1/SubCent cents
SubCent == 100

(***************************************************************************)
(* Arithmetic helpers.                                                     *)
(***************************************************************************)
Abs(x) == IF x < 0 THEN 0 - x ELSE x

Min2(a, b) == IF a <= b THEN a ELSE b

Max2(a, b) == IF a >= b THEN a ELSE b

\* round(n / d) to the nearest integer, ties to the even one (n >= 0, d > 0)
RoundHalfEven(n, d) ==
    LET q == n \div d
        r == n % d
    IN  IF 2 * r < d THEN q
        ELSE IF 2 * r > d THEN q + 1
        ELSE IF q % 2 = 0 THEN q ELSE q + 1

\* round(n / d) to the nearest integer, ties away from zero (n >= 0, d > 0)
RoundHalfUp(n, d) == (2 * n + d) \div (2 * d)

RECURSIVE SumSeq(_)
SumSeq(s) == IF s = <<>> THEN 0 ELSE Head(s) + SumSeq(Tail(s))

RECURSIVE MinSeq(_)
MinSeq(s) == IF Len(s) = 1 THEN s[1] ELSE Min2(Head(s), MinSeq(Tail(s)))

Range(s) == {s[i] : i \in 1..Len(s)}

\* s[:n]
Prefix(s, n) == SubSeq(s, 1, Min2(n, Len(s)))

(***************************************************************************)
(* scoring.py                                                              *)
(***************************************************************************)
\* the value as it is
_clamp_nothing(value, low, high) == value

_clamp(value, low, high) == Max2(low, Min2(high, value))

\* total_minor, budget_minor in cents; result in hundredths
_component_price_value(total_minor, budget_minor) ==
    IF budget_minor <= 0 THEN 5500
    ELSE LET b == Max2(1, budget_minor)
             \* (100 - |ratio - 0.85| * 120) * 100 * b
             num == (10000 * b) - (120 * Abs((100 * total_minor) - (85 * b)))
         IN  IF num <= 0 THEN 0
             ELSE RoundHalfEven(Min2(num, 10000 * b), b)

\* preference_weights: function label -> weight; candidate_tags: set of labels
RECURSIVE WeightSum(_, _)
WeightSum(weights, labels) ==
    IF labels = {} THEN 0
    ELSE LET k == CHOOSE x \in labels : TRUE
         IN  (IF weights[k] > 0 THEN weights[k] ELSE 0) + WeightSum(weights, labels \ {k})

_component_preference_match(preference_weights, candidate_tags) ==
    IF DOMAIN preference_weights = {} THEN 6200
    ELSE LET total_weight == WeightSum(preference_weights, DOMAIN preference_weights)
             matched_weight == WeightSum(preference_weights, DOMAIN preference_weights \cap candidate_tags)
         IN  IF total_weight <= 0 THEN 5800
             ELSE _clamp(RoundHalfEven(matched_weight * 10000, total_weight), 0, 10000)

\* season_multiplier in hundredths (1.0 is 100)
_component_seasonal_fit(season_multiplier) ==
    _clamp(9600 - (Abs(season_multiplier - 100) * 140), 2000, 10000)

\* an unknown band scored as a medium one
distance_scores_medium_default(distance_band) ==
    CASE distance_band = "short" -> 92
      [] distance_band = "long" -> 60
      [] distance_band = "ultra_long" -> 45
      [] OTHER -> 78

distance_scores(distance_band) ==
    CASE distance_band = "short" -> 92
      [] distance_band = "medium" -> 78
      [] distance_band = "long" -> 60
      [] distance_band = "ultra_long" -> 45
      [] OTHER -> 68

\* nonstop_likelihood in hundredths, timezone_delta_hours in hours,
\* travel_time_minutes in minutes.  Computed in units of 1/180000 point.
_component_convenience(distance_band, nonstop_likelihood, timezone_delta_hours, travel_time_minutes) ==
    LET distance_score == distance_scores(distance_band)
        nonstop_score == _clamp(nonstop_likelihood, 0, 100)
        timezone_penalty == _clamp(timezone_delta_hours * 810000, 0, 38 * 180000)
        redeye_proxy == IF travel_time_minutes >= 420
                        THEN _clamp((travel_time_minutes - 420) * 10000, 0, 22 * 180000)
                        ELSE 0
        raw == (distance_score * 81000) + (nonstop_score * 63000)
               + (((100 * 180000) - timezone_penalty) \div 5)
        score == _clamp(raw - redeye_proxy, 0, 100 * 180000)
    IN  RoundHalfEven(score, 1800)

\* data_confidence in units of 1/6000 (1.0 is 6000)
_component_safety_fallback(data_confidence) ==
    LET confidence == _clamp(data_confidence, 0, 6000)
    IN  RoundHalfEven((4500 * 6000) + (confidence * 5500), 6000)

\* freshness_at, clock in hours; NoVal is a missing timestamp
_component_freshness(freshness_at, clock) ==
    IF freshness_at = NoVal THEN 4200
    ELSE LET age_hours == Max2(0, clock - freshness_at)
         IN  IF age_hours <= 4 THEN 10000
             ELSE IF age_hours <= 24 THEN 8600
             ELSE IF age_hours <= 72 THEN 6800
             ELSE IF age_hours <= 168 THEN 5200
             ELSE 3400

\* the weighted sum in units of 1/10000 point (weights in hundredths)
WeightedSum(price_value, convenience, preference_match, seasonal_fit, safety_fallback, freshness) ==
    (price_value * 28) + (convenience * 20) + (preference_match * 17)
    + (seasonal_fit * 13) + (safety_fallback * 12) + (freshness * 10)

\* a: record of the keyword arguments; clock: datetime.now()
score_package(a, clock) ==
    LET price_value == _component_price_value(a.total_minor, a.budget_minor)
        convenience == _component_convenience(a.distance_band, a.nonstop_likelihood,
                                              a.timezone_delta_hours, a.travel_time_minutes)
        preference_match == _component_preference_match(a.preference_weights, a.candidate_tags)
        seasonal_fit == _component_seasonal_fit(a.season_multiplier)
        safety_fallback == _component_safety_fallback(a.data_confidence)
        freshness == _component_freshness(a.freshness_at, clock)
        score == WeightedSum(price_value, convenience, preference_match,
                             seasonal_fit, safety_fallback, freshness)
    IN  [score |-> RoundHalfEven(score, 100),
         price_score |-> price_value,
         convenience_score |-> convenience,
         quality_score |-> preference_match,
         location_score |-> seasonal_fit,
         breakdown |-> [price_value |-> price_value,
                        convenience |-> convenience,
                        preference_match |-> preference_match,
                        seasonal_fit |-> seasonal_fit,
                        safety_fallback |-> safety_fallback,
                        freshness |-> freshness]]

(***************************************************************************)
(* fx.py                                                                   *)
(***************************************************************************)
\* a whole number of cents as a Decimal
Dec(cents) == cents * SubCent

\* value.quantize(ONE_CENT, rounding=ROUND_HALF_UP), value >= 0
quantize_money(value) == RoundHalfUp(value, SubCent) * SubCent

\* int(quantize_money(value) * 100)
to_minor_units(value) == quantize_money(value) \div SubCent

\* the FxRate table: rate in hundredths for the stored pairs
EurUsdRate == 125

FxRateRows == [base : {"EUR"}, quote : {"USD"}]

get_rate(base_currency, quote_currency) ==
    IF base_currency = quote_currency THEN 100
    ELSE IF [base |-> base_currency, quote |-> quote_currency] \in FxRateRows
         THEN EurUsdRate
         ELSE 100

\* quantize_money(amount * get_rate(base, quote))
convert_decimal(amount, base_currency, quote_currency) ==
    RoundHalfUp(amount * get_rate(base_currency, quote_currency), 100 * SubCent) * SubCent

(***************************************************************************)
(* package_builder.py: helpers                                             *)
(***************************************************************************)
SortModes == {"budget_first", "cheapest", "fastest", "fewest_stops",
              "family_friendly", "best_hotel", "best_value"}

\* sequences of integers, compared as Python compares tuples
RECURSIVE LexLess(_, _)
LexLess(a, b) ==
    IF a = <<>> THEN b # <<>>
    ELSE IF b = <<>> THEN FALSE
    ELSE IF Head(a) < Head(b) THEN TRUE
    ELSE IF Head(a) > Head(b) THEN FALSE
    ELSE LexLess(Tail(a), Tail(b))

\* flight.stops or 99
StopsOr99(stops) == IF stops = 0 THEN 99 ELSE stops

\* best_value keyed like budget_first
_sort_key_total_first(sort_mode, item) ==
    CASE sort_mode = "cheapest" ->
            <<item.package_total, 0 - item.score>>
      [] sort_mode = "fastest" ->
            <<item.flight.duration_minutes, item.package_total>>
      [] sort_mode = "fewest_stops" ->
            <<StopsOr99(item.flight.stops), item.flight.duration_minutes, item.package_total>>
      [] sort_mode = "family_friendly" ->
            <<0 - item.family_friendly_score, item.package_total>>
      [] sort_mode = "best_hotel" ->
            <<0 - item.quality_score, item.package_total>>
      [] OTHER ->
            <<0 - item.price_score, item.package_total, 0 - item.score>>

_sort_key(sort_mode, item) ==
    CASE sort_mode = "budget_first" ->
            <<0 - item.price_score, item.package_total, 0 - item.score>>
      [] sort_mode = "cheapest" ->
            <<item.package_total, 0 - item.score>>
      [] sort_mode = "fastest" ->
            <<item.flight.duration_minutes, item.package_total>>
      [] sort_mode = "fewest_stops" ->
            <<StopsOr99(item.flight.stops), item.flight.duration_minutes, item.package_total>>
      [] sort_mode = "family_friendly" ->
            <<0 - item.family_friendly_score, item.package_total>>
      [] sort_mode = "best_hotel" ->
            <<0 - item.quality_score, item.package_total>>
      [] sort_mode = "best_value" ->
            <<0 - item.price_score, 0 - item.score, item.package_total>>
      [] OTHER ->
            <<0 - item.price_score, item.package_total, 0 - item.score>>

\* list.sort(key=...): a stable sort, by insertion from the left
RECURSIVE InsertSorted(_, _, _)
InsertSorted(sorted, item, sort_mode) ==
    IF sorted = <<>> THEN <<item>>
    ELSE LET last == sorted[Len(sorted)]
         IN  IF LexLess(_sort_key(sort_mode, item), _sort_key(sort_mode, last))
             THEN Append(InsertSorted(SubSeq(sorted, 1, Len(sorted) - 1), item, sort_mode), last)
             ELSE Append(sorted, item)

RECURSIVE SortCombinations(_, _)
SortCombinations(combinations, sort_mode) ==
    IF combinations = <<>> THEN <<>>
    ELSE InsertSorted(SortCombinations(SubSeq(combinations, 1, Len(combinations) - 1), sort_mode),
                      combinations[Len(combinations)], sort_mode)

\* _as_decimal(raw, key, fallback): the raw value is a Decimal or NoVal
_as_decimal(value, fallback) ==
    IF value = NoVal THEN fallback ELSE quantize_money(value)

\* Decimal(str(total_price)) / nights, to the precision of a Decimal
DecimalDiv(amount, nights) == RoundHalfEven(amount, nights)

_tour_has_explicit_price(tour) == tour.total_price > 0

\* (tour.currency or target_currency or "USD").upper()
TourSourceCurrency(tour, target_currency) ==
    IF tour.currency # "" THEN tour.currency
    ELSE IF target_currency # "" THEN target_currency
    ELSE "USD"

\* allow_estimate is False at every call site
_tour_total_in_currency(tour, target_currency) ==
    IF _tour_has_explicit_price(tour)
    THEN convert_decimal(Dec(tour.total_price), TourSourceCurrency(tour, target_currency), target_currency)
    ELSE 0

\* every candidate bundle is kept
KeepAllBundles(candidates, seen, deduped, max_bundles) == candidates

RECURSIVE DedupeBundles(_, _, _, _)
DedupeBundles(candidates, seen, deduped, max_bundles) ==
    IF candidates = <<>> THEN deduped
    ELSE LET bundle == Head(candidates)
             key == [i \in 1..Len(bundle) |-> bundle[i].id]
         IN  IF Len(bundle) > 3 \/ key \in seen
             THEN DedupeBundles(Tail(candidates), seen, deduped, max_bundles)
             ELSE IF Len(deduped) + 1 >= max_bundles
                  THEN Append(deduped, bundle)
                  ELSE DedupeBundles(Tail(candidates), seen \cup {key},
                                     Append(deduped, bundle), max_bundles)

\* only the empty bundle and the first tour alone
EmptyAndFirstTour(tours, max_bundles) ==
    IF tours = <<>> THEN << <<>> >> ELSE << <<>>, <<Head(tours)>> >>

\* max_bundles = 5 at the only call site
_tour_bundle_variants(tours, max_bundles) ==
    IF tours = <<>> THEN << <<>> >>
    ELSE LET top == Prefix(tours, 4)
             c0 == << <<>> >>
             c1 == IF Len(top) >= 1 THEN Append(c0, <<top[1]>>) ELSE c0
             c2 == IF Len(top) >= 2 THEN c1 \o << <<top[2]>>, Prefix(top, 2) >> ELSE c1
             c3 == IF Len(top) >= 3
                   THEN c2 \o << <<top[3]>>, Prefix(top, 3), <<top[2], top[3]>> >>
                   ELSE c2
             c4 == IF Len(top) >= 4 THEN Append(c3, <<top[3], top[4]>>) ELSE c3
             deduped == DedupeBundles(c4, {}, <<>>, max_bundles)
         IN  IF deduped = <<>> THEN << <<>> >> ELSE deduped

\* the visible content of a row: row id, external offer id, the time stamps
\* and the raw estimate fields are not part of it
_flight_combo_signature(flight) ==
    <<flight.content, flight.total_price, flight.currency, flight.stops, flight.duration_minutes>>

_hotel_combo_signature(hotel) ==
    <<hotel.content, hotel.total_price, hotel.currency, hotel.star_rating, hotel.guest_rating>>

_tour_combo_signature(tour) ==
    <<tour.content, tour.total_price, tour.currency>>

_combination_signature(item) ==
    <<item.candidate.airport_code,
      _flight_combo_signature(item.flight),
      _hotel_combo_signature(item.hotel),
      [i \in 1..Len(item.selected_tours) |-> _tour_combo_signature(item.selected_tours[i])],
      item.exact_flight_total, item.exact_hotel_total, item.tours_total, item.package_total>>

RECURSIVE DedupeLoop(_, _, _, _)
DedupeLoop(combinations, seen, selected, max_packages) ==
    IF combinations = <<>> THEN selected
    ELSE LET item == Head(combinations)
             signature == _combination_signature(item)
         IN  IF signature \in seen
             THEN DedupeLoop(Tail(combinations), seen, selected, max_packages)
             ELSE IF Len(selected) + 1 >= max_packages
                  THEN Append(selected, item)
                  ELSE DedupeLoop(Tail(combinations), seen \cup {signature},
                                  Append(selected, item), max_packages)

\* the first max_packages combinations, whatever their signatures
_first_sorted_combinations(combinations, max_packages) ==
    Prefix(combinations, Max2(1, max_packages))

_dedupe_sorted_combinations(combinations, max_packages) ==
    DedupeLoop(combinations, {}, <<>>, max_packages)

(***************************************************************************)
(* The plan, the destination candidates and the option rows.               *)
(***************************************************************************)
\* _timezone_offset_hours(timezone_name): the UTC offset of a zone name,
\* 0 for an empty or unknown name
_timezone_offset_hours(timezone_name) ==
    CASE timezone_name = "Europe/Paris" -> 1
      [] timezone_name = "Asia/Tokyo" -> 9
      [] timezone_name = "America/New_York" -> 0 - 5
      [] OTHER -> 0

\* a or b, for numbers: None and 0 are falsy
OrNum(a, b) == IF a = NoVal \/ a = 0 THEN b ELSE a

\* a or b, for strings: None and "" are falsy
OrStr(a, b) == IF a = "" THEN b ELSE a

\* PlanRequest.resolve_dates(): only the distance between the dates is used
resolve_dates(p) ==
    IF p.date_mode = "exact" /\ p.depart_date # NoVal /\ p.return_date # NoVal
    THEN <<p.depart_date, p.return_date>>
    ELSE LET resolved_trip_min == Max2(1, OrNum(p.trip_length_min, OrNum(p.nights_min, 1)))
             resolved_trip_max == Max2(resolved_trip_min,
                                       OrNum(p.trip_length_max, OrNum(p.nights_max, resolved_trip_min)))
             avg_nights == Max2(resolved_trip_min, (resolved_trip_min + resolved_trip_max) \div 2)
             base_depart == 45
         IN  <<base_depart, base_depart + avg_nights>>

EmptyWeights == [x \in {} |-> 0]

ExactPlan ==
    [id |-> 1, date_mode |-> "exact", depart_date |-> 10, return_date |-> 13,
     trip_length_min |-> 2, trip_length_max |-> 4, nights_min |-> 3, nights_max |-> 7,
     search_currency |-> "USD", origin_timezone |-> "America/New_York",
     total_budget |-> 60000,
     preference_weights |-> [x \in {"beach", "food"} |-> IF x = "beach" THEN 3 ELSE 1]]

FlexiblePlan ==
    [id |-> 1, date_mode |-> "flexible", depart_date |-> NoVal, return_date |-> NoVal,
     trip_length_min |-> 3, trip_length_max |-> 7, nights_min |-> 3, nights_max |-> 7,
     search_currency |-> "USD", origin_timezone |-> "",
     total_budget |-> 100000,
     preference_weights |-> EmptyWeights]

PlanChoices == {ExactPlan, FlexiblePlan}

CandidateRows ==
    {[id |-> 1, plan |-> 1, airport_code |-> "CDG", rank |-> 1, timezone |-> "Europe/Paris",
      tags |-> {"food", "culture"}, distance_band |-> "", nonstop_likelihood |-> 70],
     [id |-> 2, plan |-> 1, airport_code |-> "NRT", rank |-> 2, timezone |-> "Asia/Tokyo",
      tags |-> {"beach", "family"}, distance_band |-> "long", nonstop_likelihood |-> 0]}

NoFlightRaw ==
    [estimated_min |-> NoVal, estimated_max |-> NoVal, distance_band |-> "",
     nonstop_likelihood |-> NoVal, season_multiplier |-> NoVal]

NoHotelRaw ==
    [nightly_min |-> NoVal, nightly_max |-> NoVal, total_stay_price |-> NoVal,
     nightly_price |-> NoVal, distance_band |-> "", season_multiplier |-> NoVal]

\* FlightOption rows
FlightDirect ==
    [id |-> 1, plan |-> 1, candidate_id |-> 1, total_price |-> 20000, currency |-> "USD",
     stops |-> 0, duration_minutes |-> 300, link_confidence |-> 90, content |-> "AF-direct",
     created_at |-> 10, last_checked_at |-> 22, raw_payload |-> NoFlightRaw]

\* same price and creation time as FlightDirect: read in either order
FlightViaHub ==
    [id |-> 2, plan |-> 1, candidate_id |-> 1, total_price |-> 20000, currency |-> "USD",
     stops |-> 1, duration_minutes |-> 200, link_confidence |-> 90, content |-> "LH-via-FRA",
     created_at |-> 10, last_checked_at |-> 0,
     raw_payload |-> [NoFlightRaw EXCEPT !.estimated_min = Dec(65000), !.estimated_max = Dec(70000),
                                         !.nonstop_likelihood = 95]]

\* the upstream row of FlightDirect once more: another id, the same content
FlightDirectAgain ==
    [id |-> 3, plan |-> 1, candidate_id |-> 1, total_price |-> 20000, currency |-> "USD",
     stops |-> 0, duration_minutes |-> 300, link_confidence |-> 90, content |-> "AF-direct",
     created_at |-> 11, last_checked_at |-> 22, raw_payload |-> NoFlightRaw]

FlightTokyo ==
    [id |-> 4, plan |-> 1, candidate_id |-> 2, total_price |-> 15050, currency |-> "EUR",
     stops |-> 2, duration_minutes |-> 600, link_confidence |-> 88, content |-> "JL-via-HEL",
     created_at |-> 12, last_checked_at |-> 12,
     raw_payload |-> [NoFlightRaw EXCEPT !.estimated_min = Dec(1000), !.estimated_max = Dec(1200),
                                         !.distance_band = "ultra_long", !.season_multiplier = 120]]

FlightPools ==
    {{}, {FlightDirect, FlightViaHub, FlightTokyo},
     {FlightDirect, FlightViaHub, FlightDirectAgain, FlightTokyo}}

\* HotelOption rows
HotelLutece ==
    [id |-> 1, plan |-> 1, candidate_id |-> 1, total_price |-> 30000, currency |-> "USD",
     star_rating |-> 40, guest_rating |-> 85, link_confidence |-> 90, content |-> "Hotel Lutece",
     created_at |-> 10, last_checked_at |-> 23,
     raw_payload |-> [NoHotelRaw EXCEPT !.total_stay_price = Dec(31000) + (SubCent \div 2)]]

HotelAuberge ==
    [id |-> 2, plan |-> 1, candidate_id |-> 1, total_price |-> 10000, currency |-> "EUR",
     star_rating |-> 30, guest_rating |-> 70, link_confidence |-> 58, content |-> "Auberge",
     created_at |-> 11, last_checked_at |-> 23,
     raw_payload |-> [NoHotelRaw EXCEPT !.nightly_price = Dec(3333) + (SubCent \div 3),
                                        !.nightly_min = Dec(9000), !.nightly_max = Dec(9500)]]

HotelRyokan ==
    [id |-> 3, plan |-> 1, candidate_id |-> 2, total_price |-> 40000, currency |-> "USD",
     star_rating |-> 45, guest_rating |-> 90, link_confidence |-> 90, content |-> "Ryokan",
     created_at |-> 12, last_checked_at |-> 12,
     raw_payload |-> [NoHotelRaw EXCEPT !.nightly_min = Dec(1000), !.nightly_max = Dec(1100)]]

HotelPools ==
    {{}, {HotelRyokan}, {HotelLutece, HotelAuberge}, {HotelLutece, HotelAuberge, HotelRyokan}}

\* TourOption rows
TourLouvre ==
    [id |-> 1, plan |-> 1, candidate_id |-> 1, total_price |-> 5000, currency |-> "EUR",
     link_confidence |-> 45, content |-> "Louvre tour", created_at |-> 12, last_checked_at |-> 5]

TourSearch ==
    [id |-> 2, plan |-> 1, candidate_id |-> 1, total_price |-> 0, currency |-> "",
     link_confidence |-> 45, content |-> "Paris tours 1", created_at |-> 12, last_checked_at |-> 21]

TourPools == {{}, {TourLouvre, TourSearch}}

(***************************************************************************)
(* Reading rows: queryset.order_by("total_price", "created_at").  Rows     *)
(* that agree on both fields come back in an order the database chooses.   *)
(***************************************************************************)
RowBefore(a, b) ==
    \/ a.total_price < b.total_price
    \/ a.total_price = b.total_price /\ a.created_at <= b.created_at

OrderedReads(rows) ==
    {s \in [1..Cardinality(rows) -> rows] :
        /\ \A i, j \in 1..Cardinality(rows) : i # j => s[i] # s[j]
        /\ \A i, j \in 1..Cardinality(rows) : i < j => RowBefore(s[i], s[j])}

\* plan.destination_candidates.all(): Meta.ordering = ["rank", "city_name"],
\* ranks are distinct (enumerate in build_destination_candidates)
CandidatesInOrder(cands) ==
    CHOOSE s \in [1..Cardinality(cands) -> cands] :
        \A i, j \in 1..Cardinality(cands) : i < j => s[i].rank < s[j].rank

ForCandidate(rows, candidate_id) == SelectSeq(rows, LAMBDA r : r.candidate_id = candidate_id)

(***************************************************************************)
(* package_builder.py: build_packages_for_plan                             *)
(***************************************************************************)
\* the estimate kept as computed
UnclampedEstimatedMin(est_total_min, package_total) == est_total_min

\* if est_total_min > package_total: est_total_min = package_total
ClampEstimatedMin(est_total_min, package_total) ==
    IF est_total_min > package_total THEN package_total ELSE est_total_min

\* if est_total_max < package_total: est_total_max = package_total
ClampEstimatedMax(est_total_max, package_total) ==
    IF est_total_max < package_total THEN package_total ELSE est_total_max

\* est_total_min, est_total_max before the clamping
EstimatedBand(p, flight, hotel) ==
    LET target_currency == OrStr(p.search_currency, "USD")
        nights_low == Max2(1, OrNum(p.trip_length_min, OrNum(p.nights_min, 1)))
        nights_high == Max2(nights_low, OrNum(p.trip_length_max, OrNum(p.nights_max, nights_low)))
        flight_min == _as_decimal(flight.raw_payload.estimated_min, Dec(flight.total_price))
        flight_max == _as_decimal(flight.raw_payload.estimated_max, Dec(flight.total_price))
        hotel_nightly_min == _as_decimal(hotel.raw_payload.nightly_min,
                                         DecimalDiv(Dec(hotel.total_price), Max2(nights_low, 1)))
        hotel_nightly_max == _as_decimal(hotel.raw_payload.nightly_max,
                                         DecimalDiv(Dec(hotel.total_price), Max2(nights_high, 1)))
        est_flight_min == convert_decimal(flight_min, flight.currency, target_currency)
        est_flight_max == convert_decimal(flight_max, flight.currency, target_currency)
        est_hotel_min == convert_decimal(hotel_nightly_min, hotel.currency, target_currency)
        est_hotel_max == convert_decimal(hotel_nightly_max, hotel.currency, target_currency)
    IN  [min |-> quantize_money(est_flight_min + (est_hotel_min * nights_low)),
         max |-> quantize_money(est_flight_max + (est_hotel_max * nights_high))]

\* the older of the flight and the hotel only
FreshnessWithoutTours(flight, hotel, selected_tours) ==
    Min2(flight.last_checked_at, hotel.last_checked_at)

\* freshness_candidates of the two rows and the selected tours; min(...)
PackageFreshness(flight, hotel, selected_tours) ==
    MinSeq(<<flight.last_checked_at, hotel.last_checked_at>>
           \o [i \in 1..Len(selected_tours) |-> selected_tours[i].last_checked_at])

\* the body of the three nested loops for one flight, hotel and tour bundle
Combination(p, candidate, flight, hotel, selected_tours, clock) ==
    LET target_currency == OrStr(p.search_currency, "USD")
        nights_low == Max2(1, OrNum(p.trip_length_min, OrNum(p.nights_min, 1)))
        dates == resolve_dates(p)
        selected_nights == IF dates[2] > dates[1] THEN Max2(1, dates[2] - dates[1]) ELSE nights_low
        budget_minor == 0
        flight_raw == flight.raw_payload
        hotel_raw == hotel.raw_payload
        optional_tours_total ==
            quantize_money(SumSeq([i \in 1..Len(selected_tours) |->
                                      _tour_total_in_currency(selected_tours[i], target_currency)]))
        tours_total == 0
        exact_flight_total == convert_decimal(Dec(flight.total_price), flight.currency, target_currency)
        base_hotel_total ==
            IF hotel_raw.total_stay_price # NoVal
            THEN _as_decimal(hotel_raw.total_stay_price, Dec(hotel.total_price))
            ELSE quantize_money(
                     _as_decimal(hotel_raw.nightly_price,
                                 DecimalDiv(Dec(hotel.total_price), Max2(selected_nights, 1)))
                     * selected_nights)
        exact_hotel_total == convert_decimal(base_hotel_total, hotel.currency, target_currency)
        package_total == quantize_money(exact_flight_total + exact_hotel_total)
        band == EstimatedBand(p, flight, hotel)
        freshness_at == PackageFreshness(flight, hotel, selected_tours)
        distance_band == OrStr(flight_raw.distance_band,
                               OrStr(hotel_raw.distance_band, OrStr(candidate.distance_band, "medium")))
        nonstop_likelihood == OrNum(flight_raw.nonstop_likelihood, OrNum(candidate.nonstop_likelihood, 55))
        season_multiplier == OrNum(flight_raw.season_multiplier, OrNum(hotel_raw.season_multiplier, 100))
        link_confidences ==
            <<flight.link_confidence, hotel.link_confidence>>
            \o [i \in 1..Len(selected_tours) |-> selected_tours[i].link_confidence]
        \* the mean, in units of 1/6000, clamped to [0.25, 0.95]
        data_confidence == Max2(1500, Min2(5700, SumSeq(link_confidences) * (60 \div Len(link_confidences))))
        timezone_delta_hours == Abs(_timezone_offset_hours(candidate.timezone)
                                    - _timezone_offset_hours(p.origin_timezone))
        score == score_package([total_minor |-> to_minor_units(package_total),
                                budget_minor |-> budget_minor,
                                preference_weights |-> p.preference_weights,
                                candidate_tags |-> candidate.tags,
                                season_multiplier |-> season_multiplier,
                                distance_band |-> distance_band,
                                nonstop_likelihood |-> nonstop_likelihood,
                                freshness_at |-> freshness_at,
                                timezone_delta_hours |-> timezone_delta_hours,
                                travel_time_minutes |-> flight.duration_minutes,
                                data_confidence |-> data_confidence],
                               clock)
        family_friendly_score ==
            _clamp(4500 + (hotel.guest_rating * 40) + (hotel.star_rating * 20) - (flight.stops * 1000)
                   + (IF "family" \in candidate.tags THEN 800 ELSE 0), 0, 10000)
    IN  [candidate |-> candidate,
         flight |-> flight,
         hotel |-> hotel,
         selected_tours |-> selected_tours,
         exact_flight_total |-> quantize_money(exact_flight_total),
         exact_hotel_total |-> quantize_money(exact_hotel_total),
         tours_total |-> tours_total,
         optional_tours_total |-> optional_tours_total,
         package_total |-> package_total,
         estimated_total_min |-> ClampEstimatedMin(band.min, package_total),
         estimated_total_max |-> ClampEstimatedMax(band.max, package_total),
         freshness_at |-> freshness_at,
         score |-> score.score,
         price_score |-> score.price_score,
         convenience_score |-> score.convenience_score,
         quality_score |-> score.quality_score,
         location_score |-> score.location_score,
         family_friendly_score |-> family_friendly_score,
         score_breakdown |-> score.breakdown,
         data_confidence |-> data_confidence]

\* the combinations of one candidate, flight-major, then hotel, then bundle
CandidateCombinations(p, candidate, flights, hotels, tours, clock) ==
    LET bundles == _tour_bundle_variants(tours, 5)
        nh == Len(hotels)
        nb == Len(bundles)
    IN  [n \in 1..(Len(flights) * nh * nb) |->
            Combination(p, candidate,
                        flights[((n - 1) \div (nh * nb)) + 1],
                        hotels[(((n - 1) \div nb) % nh) + 1],
                        bundles[((n - 1) % nb) + 1],
                        clock)]

\* the loop left at the first candidate without flights or hotels
RECURSIVE AllCombinationsUntilGap(_, _, _, _, _, _, _, _)
AllCombinationsUntilGap(p, cands, flight_rows, hotel_rows, tour_rows, flights_per_city, hotels_per_city, clock) ==
    IF cands = <<>> THEN <<>>
    ELSE LET candidate == Head(cands)
             flights == Prefix(ForCandidate(flight_rows, candidate.id), flights_per_city)
             hotels == Prefix(ForCandidate(hotel_rows, candidate.id), hotels_per_city)
             tours == ForCandidate(tour_rows, candidate.id)
         IN  IF flights = <<>> \/ hotels = <<>>
             THEN <<>>
             ELSE CandidateCombinations(p, candidate, flights, hotels, tours, clock)
                  \o AllCombinationsUntilGap(p, Tail(cands), flight_rows, hotel_rows, tour_rows,
                                             flights_per_city, hotels_per_city, clock)

\* for candidate in plan.destination_candidates.all(): ... combinations.append
RECURSIVE AllCombinations(_, _, _, _, _, _, _, _)
AllCombinations(p, cands, flight_rows, hotel_rows, tour_rows, flights_per_city, hotels_per_city, clock) ==
    IF cands = <<>> THEN <<>>
    ELSE LET candidate == Head(cands)
             flights == Prefix(ForCandidate(flight_rows, candidate.id), flights_per_city)
             hotels == Prefix(ForCandidate(hotel_rows, candidate.id), hotels_per_city)
             tours == ForCandidate(tour_rows, candidate.id)
             rest == AllCombinations(p, Tail(cands), flight_rows, hotel_rows, tour_rows,
                                     flights_per_city, hotels_per_city, clock)
         IN  IF flights = <<>> \/ hotels = <<>>
             THEN rest
             ELSE CandidateCombinations(p, candidate, flights, hotels, tours, clock) \o rest

\* amounts of a persisted package are whole cents
Cents(amount) == amount \div SubCent

\* a total that charges the optional tours as well
TotalWithOptionalTours(item) ==
    quantize_money(item.exact_flight_total + item.exact_hotel_total + item.optional_tours_total)

\* breakdown_total: the strict component sum that is persisted as the total
StrictTotal(item) ==
    quantize_money(item.exact_flight_total + item.exact_hotel_total + item.tours_total)

\* PackageOption.objects.create(...) for the item at position idx
PackageRow(p, item, idx, build_no, target_currency) ==
    LET exact_total == StrictTotal(item)
        shown_flight == convert_decimal(Dec(item.flight.total_price), item.flight.currency, target_currency)
        shown_hotel == convert_decimal(Dec(item.hotel.total_price), item.hotel.currency, target_currency)
    IN  [id |-> <<build_no, idx>>,
         plan |-> p.id,
         candidate |-> item.candidate.id,
         flight_option |-> item.flight.id,
         hotel_option |-> item.hotel.id,
         tour_options |-> {item.selected_tours[i].id : i \in 1..Min2(3, Len(item.selected_tours))},
         selected_tour_option_ids |-> [i \in 1..Min2(3, Len(item.selected_tours)) |-> item.selected_tours[i].id],
         rank |-> idx,
         total_price |-> Cents(exact_total),
         amount_minor |-> to_minor_units(exact_total),
         estimated_total_min |-> Cents(item.estimated_total_min),
         estimated_total_max |-> Cents(item.estimated_total_max),
         freshness_at |-> item.freshness_at,
         price_breakdown |->
            [flight |-> Cents(quantize_money(item.exact_flight_total)),
             hotel |-> Cents(quantize_money(item.exact_hotel_total)),
             tours |-> 0,
             optional_tours |-> Cents(quantize_money(item.optional_tours_total)),
             total |-> Cents(quantize_money(exact_total)),
             package_total |-> Cents(quantize_money(exact_total))],
         component_summary |-> [flight_price |-> Cents(quantize_money(shown_flight)),
                                hotel_price |-> Cents(quantize_money(shown_hotel)),
                                stops |-> item.flight.stops,
                                duration_minutes |-> item.flight.duration_minutes],
         score |-> item.score,
         price_score |-> item.price_score,
         convenience_score |-> item.convenience_score,
         quality_score |-> item.quality_score,
         location_score |-> item.location_score,
         family_friendly_score |-> item.family_friendly_score,
         score_breakdown |-> item.score_breakdown,
         signature |-> _combination_signature(item)]

(***************************************************************************)
(* State.                                                                  *)
(***************************************************************************)
VARIABLES
    clock,        \* timezone.now(), in hours
    plan,         \* the PlanRequest row
    candidates,   \* DestinationCandidate rows
    flights,      \* FlightOption rows
    hotels,       \* HotelOption rows
    tours,        \* TourOption rows
    packages,     \* PackageOption rows
    returned,     \* the list returned by the last build_packages_for_plan call
    builds,       \* number of build_packages_for_plan calls so far
    sortArg,      \* the sort_mode the caller of this run passes ("" leaves it out)
    lastCall,     \* arguments and inputs of the last call (history)
    scoreArgs,    \* arguments of a direct call of a function (score_package, ...)
    scoreResult,  \* what the call returned
    airports,     \* Airport rows
    destCall,     \* the last build_destination_candidates call (history)
    vendor,       \* connections["default"].vendor
    planRequests, \* PlanRequest rows, committed or written by an open transaction
    calls,        \* the create_plan_request calls and where each of them stands
    createLock,   \* the holder of _SQLITE_PLAN_CREATE_LOCK, 0 when free
    delayCalls,   \* the plan ids run_plan_pipeline.delay was called with, in order
    brokerQueue,  \* the run_plan_pipeline messages the broker accepted
    planStatus,   \* status, progress and error columns of the PlanRequest row
    placesPending,\* candidates whose fetch_places_for_candidate task has not run yet
    placesResults,\* the results the places tasks returned, by candidate id
    taskQueue,    \* the stage tasks that were dispatched and have not run yet
    finishedTasks,\* the stage tasks that have run
    fxAvailable,  \* whether the exchange-rate provider answers
    buildRun,     \* where a build_packages_for_plan call in progress stands
    pipelinePc,   \* where the run_plan_pipeline task in progress stands ("" when none)
    chordPending, \* header tasks of the current chord that have not returned yet
    chordResults, \* the results the header tasks of the current chord returned
    retries       \* self.request.retries of the flight-signal task of each candidate

\* the state of the destination service
destVars == <<airports, destCall>>

\* the state of plan creation
createVars == <<vendor, planRequests, calls, createLock, delayCalls, brokerQueue>>

\* the state outside package building, scoring and the destination service
serviceVars == <<createVars>>

\* the state outside package building and scoring
extraVars == <<destVars, serviceVars>>

\* the state of the pipeline stages that follow the tours stage
\* the position of a build in progress and of the first pipeline stages
runVars == <<buildRun, pipelinePc, chordPending, chordResults, retries>>

stageVars == <<planStatus, placesPending, placesResults, taskQueue, finishedTasks, fxAvailable,
               runVars>>

vars == <<clock, plan, candidates, flights, hotels, tours, packages, returned,
          builds, sortArg, lastCall, scoreArgs, scoreResult, extraVars, stageVars>>

NoDestCall == [called |-> FALSE, runs |-> 0]

\* no destination service call has been made, the airport table is not read
DestIdle == airports = {} /\ destCall = NoDestCall

\* no create_plan_request call is made
CreateIdle ==
    /\ vendor = "sqlite"
    /\ planRequests = {}
    /\ calls = <<>>
    /\ createLock = 0
    /\ delayCalls = <<>>
    /\ brokerQueue = <<>>

ServicesIdle == CreateIdle

NoStatus == [status |-> "", progress_percent |-> 0, progress_message |-> "", error_message |-> ""]

NoBuildRun == [pc |-> "idle"]

\* no build is in progress, no pipeline task has been started
RunIdle ==
    /\ buildRun = NoBuildRun
    /\ pipelinePc = ""
    /\ chordPending = {}
    /\ chordResults = <<>>
    /\ retries = <<>>

\* no pipeline stage is running
StageIdle ==
    /\ planStatus = NoStatus
    /\ placesPending = {}
    /\ placesResults = <<>>
    /\ taskQueue = {}
    /\ finishedTasks = {}
    /\ fxAvailable = TRUE
    /\ RunIdle

ExtraIdle == DestIdle /\ ServicesIdle /\ StageIdle

NoCall == [called |-> FALSE]

NoScoreArgs == [given |-> FALSE]

NoScore == [computed |-> FALSE]

\* sort_mode as passed by a caller; "" is a call that leaves it out
SortModeArgs == SortModes \cup {"", "newest"}

\* (max_packages, flights_per_city = hotels_per_city) of a call: the pipeline
\* passes 1 and 1, other callers keep the per-city default 3
CallShapes == {<<0, 3>>, <<1, 1>>, <<5, 3>>}

Init ==
    /\ clock = StartClock
    /\ plan \in PlanChoices
    /\ candidates = CandidateRows
    /\ flights \in FlightPools
    /\ hotels \in HotelPools
    /\ tours \in TourPools
    /\ packages = {}
    /\ returned = <<>>
    /\ builds = 0
    /\ sortArg \in SortModeArgs
    /\ lastCall = NoCall
    /\ scoreArgs = NoScoreArgs
    /\ scoreResult = NoScore
    /\ ExtraIdle

\* time passes
Tick ==
    /\ clock + TickHours <= MaxClock
    /\ clock' = clock + TickHours
    /\ UNCHANGED <<plan, candidates, flights, hotels, tours, packages, returned,
                   builds, sortArg, lastCall, scoreArgs, scoreResult, extraVars, stageVars>>

\* nothing is deleted
KeepPackages(rows, plan_id) == rows

\* the packages of every plan are deleted
DeleteAllPackages(rows, plan_id) == {}

\* PackageOption.objects.filter(plan=plan).delete(): the rows that remain
DeletePackages(rows, plan_id) == {pk \in rows : pk.plan # plan_id}

\* the packages a call creates, for one order in which the rows are read
CreatedPackages(p, cands, flight_rows, hotel_rows, tour_rows, sort_mode, max_packages, flights_per_city, hotels_per_city, build_no, now) ==
    LET target_currency == OrStr(p.search_currency, "USD")
        combinations == AllCombinations(p, CandidatesInOrder(cands), flight_rows, hotel_rows, tour_rows,
                                        flights_per_city, hotels_per_city, now)
        selected == IF combinations = <<>> THEN <<>>
                    ELSE _dedupe_sorted_combinations(SortCombinations(combinations, sort_mode),
                                                     max_packages)
    IN  [idx \in 1..Len(selected) |-> PackageRow(p, selected[idx], idx, build_no, target_currency)]

\* build_packages_for_plan(plan, sort_mode, max_packages, flights_per_city, hotels_per_city)
BuildPackagesFor(p, sort_mode_arg, max_packages, per_city) ==
    /\ builds < MaxBuilds
    /\ LET sort_mode == IF sort_mode_arg = "" THEN "budget_first" ELSE sort_mode_arg
           plan_candidates == {c \in candidates : c.plan = p.id}
           plan_flights == {r \in flights : r.plan = p.id}
           plan_hotels == {r \in hotels : r.plan = p.id}
           plan_tours == {r \in tours : r.plan = p.id}
       IN  \E flight_rows \in OrderedReads(plan_flights),
              hotel_rows \in OrderedReads(plan_hotels),
              tour_rows \in OrderedReads(plan_tours) :
              LET created == CreatedPackages(p, plan_candidates, flight_rows, hotel_rows, tour_rows,
                                             sort_mode, max_packages, per_city, per_city,
                                             builds + 1, clock)
              IN  /\ returned' = created
                  /\ packages' = DeletePackages(packages, p.id) \cup Range(returned')
                  /\ lastCall' = [called |-> TRUE, plan |-> p.id, sort_mode |-> sort_mode_arg,
                                  max_packages |-> max_packages, per_city |-> per_city,
                                  clock |-> clock,
                                  deleted |-> Cardinality(packages \ DeletePackages(packages, p.id)),
                                  flight_rows |-> flight_rows, hotel_rows |-> hotel_rows,
                                  tour_rows |-> tour_rows]
    /\ builds' = builds + 1
    /\ UNCHANGED <<clock, plan, candidates, flights, hotels, tours, sortArg, scoreArgs, scoreResult,
                   extraVars>>

\* the call for the plan of the request
BuildPackages(sort_mode_arg, max_packages, per_city) ==
    BuildPackagesFor(plan, sort_mode_arg, max_packages, per_city)

Build ==
    /\ \E shape \in CallShapes : BuildPackages(sortArg, shape[1], shape[2])
    /\ UNCHANGED stageVars

Next ==
    \/ Tick
    \/ Build

Spec == Init /\ [][Next]_vars

(***************************************************************************)
(* score_package called directly, on arguments drawn from small sets.      *)
(***************************************************************************)
\* (total_minor, budget_minor)
ScorePriceCases ==
    {<<42500, 0>>, <<42500, 0 - 100>>, <<42500, 50000>>, <<120000, 50000>>, <<52333, 61234>>}

\* (preference_weights, candidate_tags)
ScorePreferenceCases ==
    {<<EmptyWeights, {}>>,
     <<[x \in {"beach", "food"} |-> IF x = "beach" THEN 0 ELSE 0 - 2], {"beach"}>>,
     <<[x \in {"beach", "food"} |-> IF x = "beach" THEN 3 ELSE 1], {"beach"}>>,
     <<[x \in {"beach", "food"} |-> IF x = "beach" THEN 3 ELSE 1], {"culture"}>>,
     <<[x \in {"beach", "food"} |-> IF x = "beach" THEN 2 ELSE 1], {"food", "culture"}>>}

ScoreSeasons == {60, 92, 250}

ScoreBands == {"short", "orbital"}

ScoreNonstop == {0 - 20, 55, 140}

\* (freshness_at, the time of the call)
ScoreFreshnessCases ==
    {<<NoVal, 24>>, <<22, 24>>, <<20, 24>>, <<0, 24>>, <<0, 72>>, <<0, 73>>, <<0, 168>>, <<0, 300>>}

ScoreTimezoneDeltas == {0, 14}

ScoreTravelTimes == {300, 437, 1000}

ScoreConfidences == {0 - 600, 4000, 9000}

ScoreInputs ==
    {[given |-> TRUE,
      total_minor |-> pc[1], budget_minor |-> pc[2],
      preference_weights |-> pf[1], candidate_tags |-> pf[2],
      season_multiplier |-> sm, distance_band |-> db, nonstop_likelihood |-> nl,
      freshness_at |-> fc[1], now |-> fc[2],
      timezone_delta_hours |-> tz, travel_time_minutes |-> tt, data_confidence |-> dc] :
        pc \in ScorePriceCases, pf \in ScorePreferenceCases, sm \in ScoreSeasons,
        db \in ScoreBands, nl \in ScoreNonstop, fc \in ScoreFreshnessCases,
        tz \in ScoreTimezoneDeltas, tt \in ScoreTravelTimes, dc \in ScoreConfidences}

ScoreInit ==
    /\ clock = StartClock
    /\ plan = ExactPlan
    /\ candidates = {}
    /\ flights = {}
    /\ hotels = {}
    /\ tours = {}
    /\ packages = {}
    /\ returned = <<>>
    /\ builds = 0
    /\ sortArg = ""
    /\ lastCall = NoCall
    /\ scoreArgs \in ScoreInputs
    /\ scoreResult = NoScore
    /\ ExtraIdle

\* score_package(**scoreArgs)
ScoreCall ==
    /\ scoreArgs.given
    /\ ~scoreResult.computed
    /\ scoreResult' = [computed |-> TRUE, value |-> score_package(scoreArgs, scoreArgs.now)]
    /\ UNCHANGED <<clock, plan, candidates, flights, hotels, tours, packages, returned,
                   builds, sortArg, lastCall, scoreArgs, extraVars, stageVars>>

ScoreNext == ScoreCall

SpecScore == ScoreInit /\ [][ScoreNext]_vars

(***************************************************************************)
(* Airports.  The coordinates of an airport are its position in km along   *)
(* one great circle; NoVal stands for a null latitude or longitude.        *)
(***************************************************************************)
AirportJFK ==
    [iata |-> "JFK", international |-> TRUE, country_code |-> "US", coords |-> 0,
     timezone |-> "America/New_York"]

AirportBOS ==
    [iata |-> "BOS", international |-> TRUE, country_code |-> "US", coords |-> 300,
     timezone |-> "America/New_York"]

AirportCDG ==
    [iata |-> "CDG", international |-> TRUE, country_code |-> "FR", coords |-> 5800,
     timezone |-> "Europe/Paris"]

AirportORY ==
    [iata |-> "ORY", international |-> FALSE, country_code |-> "FR", coords |-> 5850,
     timezone |-> "Europe/Paris"]

\* an airport without coordinates
AirportNCE ==
    [iata |-> "NCE", international |-> FALSE, country_code |-> "FR", coords |-> NoVal,
     timezone |-> "Europe/Paris"]

AirportNRT ==
    [iata |-> "NRT", international |-> TRUE, country_code |-> "JP", coords |-> 10800,
     timezone |-> "Asia/Tokyo"]

\* in the best distance band, after BOS in the order of codes
AirportMIA ==
    [iata |-> "MIA", international |-> TRUE, country_code |-> "US", coords |-> 1750,
     timezone |-> "America/New_York"]

AirportPools ==
    {{AirportJFK},
     {AirportJFK, AirportCDG, AirportNRT},
     {AirportJFK, AirportBOS, AirportCDG, AirportNRT, AirportMIA},
     {AirportJFK, AirportBOS, AirportCDG, AirportORY, AirportNRT},
     {AirportJFK, AirportBOS, AirportCDG, AirportORY, AirportNCE, AirportNRT}}

\* the position of a code in ascending order of codes
IataOrder(code) ==
    CASE code = "BOS" -> 1
      [] code = "CDG" -> 2
      [] code = "JFK" -> 3
      [] code = "MIA" -> 4
      [] code = "NCE" -> 5
      [] code = "NRT" -> 6
      [] code = "ORY" -> 7
      [] OTHER -> 8

NoAirport == [iata |-> "", international |-> FALSE, country_code |-> "", coords |-> NoVal,
              timezone |-> ""]

\* Airport.objects.filter(iata=code).first(), NoAirport for None
get_airport(iata) ==
    IF \E a \in airports : a.iata = iata
    THEN CHOOSE a \in airports : a.iata = iata
    ELSE NoAirport

airport_exists(iata) == get_airport(iata) # NoAirport

airport_coordinates(iata) == get_airport(iata).coords

airport_timezone(iata) == get_airport(iata).timezone

\* queryset.order_by("iata") as a list
RECURSIVE AirportsByIata(_)
AirportsByIata(rows) ==
    IF rows = {} THEN <<>>
    ELSE LET first == CHOOSE a \in rows : \A b \in rows : IataOrder(a.iata) <= IataOrder(b.iata)
         IN  <<first>> \o AirportsByIata(rows \ {first})

(***************************************************************************)
(* destination_service.py                                                  *)
(***************************************************************************)
\* the great-circle distance of two positions
haversine_km(a, b) == Abs(a - b)

_rough_travel_time_minutes(origin_coords, dest_coords) ==
    IF origin_coords = NoVal \/ dest_coords = NoVal THEN 360
    ELSE Max2(90, 80 + ((haversine_km(origin_coords, dest_coords) * 60) \div 780))

\* the duration limit is not enforced
DurationNeverRejected(max_duration_minutes, duration_minutes) == FALSE

\* if max_duration_minutes and duration_minutes > max_duration_minutes
DurationRejected(max_duration_minutes, duration_minutes) ==
    /\ max_duration_minutes # NoVal
    /\ max_duration_minutes # 0
    /\ duration_minutes > max_duration_minutes

\* the score, in whole points, with the distance and the duration
_candidate_score(international, origin_coords, destination_coords, origin_timezone, destination_timezone, max_duration_minutes) ==
    LET distance_km == IF origin_coords # NoVal /\ destination_coords # NoVal
                       THEN haversine_km(origin_coords, destination_coords)
                       ELSE 3200
        duration_minutes == _rough_travel_time_minutes(origin_coords, destination_coords)
        timezone_delta == Abs(_timezone_offset_hours(origin_timezone)
                              - _timezone_offset_hours(destination_timezone))
        score == (IF international THEN 24 ELSE 0)
                 + (IF distance_km <= 1200 THEN 16
                    ELSE IF distance_km <= 3800 THEN 26
                    ELSE IF distance_km <= 8500 THEN 18
                    ELSE 6)
                 + (IF timezone_delta <= 2 THEN 18 ELSE IF timezone_delta <= 5 THEN 11 ELSE 4)
                 + (IF duration_minutes <= 420 THEN 17 ELSE IF duration_minutes <= 720 THEN 11 ELSE 5)
    IN  [score |-> IF DurationRejected(max_duration_minutes, duration_minutes)
                   THEN 0 - 9999 ELSE score,
         distance_km |-> distance_km,
         duration_minutes |-> duration_minutes]

RECURSIVE DedupeCodes(_, _, _)
DedupeCodes(selected, seen, deduped) ==
    IF selected = <<>> THEN deduped
    ELSE IF Head(selected) \in seen
         THEN DedupeCodes(Tail(selected), seen, deduped)
         ELSE DedupeCodes(Tail(selected), seen \cup {Head(selected)}, Append(deduped, Head(selected)))

_direct_airports(p) ==
    DedupeCodes(p.destination_iatas
                \o (IF p.destination_iata # "" THEN <<p.destination_iata>> ELSE <<>>),
                {}, <<>>)

\* queryset[:4000]
ExploreReadLimit == 4000

\* Airport.objects.exclude(iata=origin), filtered by the country if one is set
ExplorePool(p) ==
    LET country_filter == IF p.destination_country \in {"", "XX", "**"}
                          THEN p.explore_constraints.country_code
                          ELSE p.destination_country
    IN  {a \in airports : /\ a.iata # p.origin_iata
                          /\ (country_filter = "" \/ a.country_code = country_filter)}

\* _candidate_score of one airport of the pool, as _explore_airports calls it
ExploreScore(p, airport) ==
    LET origin_airport == get_airport(p.origin_iata)
    IN  _candidate_score(airport.international, origin_airport.coords, airport.coords,
                         origin_airport.timezone, airport.timezone,
                         p.flight_filters.max_duration_minutes)

\* the airports in the order of their codes, whatever their scores
RankedByCode(p, rows) == AirportsByIata(rows)

\* ranked.sort(key=lambda item: (-item[0], item[1])) as a list of airports
RECURSIVE RankedAirports(_, _)
RankedAirports(p, rows) ==
    IF rows = {} THEN <<>>
    ELSE LET first == CHOOSE a \in rows : \A b \in rows :
                          \/ a = b
                          \/ LexLess(<<0 - ExploreScore(p, a).score, IataOrder(a.iata)>>,
                                     <<0 - ExploreScore(p, b).score, IataOrder(b.iata)>>)
         IN  <<first>> \o RankedAirports(p, rows \ {first})

\* no fallback when the heuristics remove every airport
NoExploreFallback(pool, max_items) == <<>>

\* list(queryset.order_by("iata").values_list("iata", flat=True)[:max_items])
ExploreFallback(pool, max_items) ==
    LET rows == AirportsByIata(pool)
    IN  [i \in 1..Min2(max_items, Len(rows)) |-> rows[i].iata]

_explore_airports(p, max_items) ==
    LET pool == ExplorePool(p)
        read == Range(Prefix(AirportsByIata(pool), ExploreReadLimit))
        ranked == RankedAirports(p, {a \in read : /\ a.coords # NoVal
                                                  /\ ExploreScore(p, a).score >= 0})
    IN  IF ranked # <<>>
        THEN [i \in 1..Min2(max_items, Len(ranked)) |-> ranked[i].iata]
        ELSE ExploreFallback(pool, max_items)

\* country_default_profile and airport_override_profile without a baseline entry
_tags_for_airport(airport_code, country_code) ==
    [tier |-> "standard", tags |-> {"culture", "food"}, nonstop_likelihood |-> 55]

\* the DestinationCandidate rows of one call, ranks counted over airport_codes[:max_items]
DestinationRecords(p, airport_codes, max_items, run_no) ==
    LET codes == Prefix(airport_codes, max_items)
    IN  {LET airport == get_airport(codes[rank])
             profile == _tags_for_airport(airport.iata, airport.country_code)
             scored == _candidate_score(airport.international,
                                        airport_coordinates(p.origin_iata), airport.coords,
                                        airport_timezone(p.origin_iata), airport.timezone,
                                        NoVal)
         IN  [id |-> (10 * run_no) + rank,
              plan |-> p.id,
              country_code |-> IF airport.country_code = "" THEN "XX" ELSE airport.country_code,
              airport_code |-> airport.iata,
              timezone |-> airport.timezone,
              rank |-> rank,
              tags |-> profile.tags,
              distance_band |-> "",
              nonstop_likelihood |-> profile.nonstop_likelihood,
              heuristic_score |-> scored.score,
              distance_km |-> scored.distance_km,
              estimated_duration_minutes |-> scored.duration_minutes]
         : rank \in {i \in 1..Len(codes) : airport_exists(codes[i])}}

(***************************************************************************)
(* Plan submission: serializers.py, forms.py and the defaults of           *)
(* create_plan_request.                                                    *)
(***************************************************************************)
NoPlan == [id |-> 0]

\* destination_iatas.insert(0, destination_iata) when it is set and not yet listed
InsertFront(code, codes) ==
    IF code # "" /\ code \notin Range(codes) THEN <<code>> \o codes ELSE codes

\* what a client sends
ApiPayloads ==
    [origin_iata : {"JFK"},
     search_mode : {"direct", "explore"},
     destination_iata : {"", "CDG", "JFK"},
     destination_iatas : {<<>>, <<"NRT", "CDG", "NRT">>, <<"CDG", "JFK">>},
     destination_country : {"", "FR"},
     max_duration_minutes : {NoVal, 300, 400},
     country_code : {"", "US"},
     max_destinations : {NoVal, 1, 2}]

\* the wizard has no field for the explore country or the number of destinations
WizardForms == {form \in ApiPayloads : form.country_code = "" /\ form.max_destinations = NoVal}

\* PlanStartSerializer.is_valid()
PlanStartValid(raw) ==
    LET destination_iatas == InsertFront(raw.destination_iata,
                                         DedupeCodes(raw.destination_iatas, {}, <<>>))
    IN  /\ airport_exists(raw.origin_iata)
        /\ raw.destination_iata = "" \/ airport_exists(raw.destination_iata)
        /\ \A i \in 1..Len(raw.destination_iatas) : airport_exists(raw.destination_iatas[i])
        /\ ~(raw.search_mode = "direct" /\ destination_iatas = <<>> /\ raw.destination_country = "")
        /\ \A i \in 1..Len(destination_iatas) : destination_iatas[i] # raw.origin_iata

\* PlanStartSerializer.validated_data
PlanStartData(raw) ==
    LET destination_iatas == InsertFront(raw.destination_iata,
                                         DedupeCodes(raw.destination_iatas, {}, <<>>))
    IN  [raw EXCEPT !.search_mode = IF @ = "direct" /\ destination_iatas = <<>>
                                    THEN "explore" ELSE @,
                    !.destination_iata = IF @ = "" /\ destination_iatas # <<>>
                                         THEN destination_iatas[1] ELSE @,
                    !.destination_iatas = destination_iatas]

\* PlannerWizardForm.is_valid()
WizardValid(form) ==
    /\ airport_exists(form.origin_iata)
    /\ form.destination_iata = "" \/ airport_exists(form.destination_iata)
    /\ ~(form.search_mode = "direct" /\ form.destination_iata = "")
    /\ form.origin_iata # form.destination_iata

\* the loop over destination_iatas_text
RECURSIVE AppendExtras(_, _)
AppendExtras(extra, destinations) ==
    IF extra = <<>> THEN destinations
    ELSE AppendExtras(Tail(extra),
                      IF Head(extra) \notin Range(destinations) /\ airport_exists(Head(extra))
                      THEN Append(destinations, Head(extra))
                      ELSE destinations)

\* PlannerWizardForm.to_plan_payload()
to_plan_payload(form) ==
    [form EXCEPT !.destination_iatas =
                     AppendExtras(@, IF form.destination_iata # ""
                                     THEN <<form.destination_iata>> ELSE <<>>)]

\* the PlanRequest row create_plan_request builds from a payload
PlanDefaults(payload) ==
    LET destination_iatas == InsertFront(payload.destination_iata, payload.destination_iatas)
        destination_iata == IF payload.destination_iata = "" /\ destination_iatas # <<>>
                            THEN destination_iatas[1] ELSE payload.destination_iata
        inferred_country == IF destination_iata # "" /\ get_airport(destination_iata).country_code # ""
                            THEN get_airport(destination_iata).country_code
                            ELSE payload.destination_country
    IN  [id |-> 1,
         origin_iata |-> payload.origin_iata,
         search_mode |-> payload.search_mode,
         destination_iata |-> destination_iata,
         destination_iatas |-> destination_iatas,
         destination_country |-> IF inferred_country = "" THEN "XX" ELSE inferred_country,
         flight_filters |-> [max_duration_minutes |-> payload.max_duration_minutes],
         explore_constraints |-> [country_code |-> payload.country_code,
                                  max_destinations |-> payload.max_destinations]]

\* max(1, min(20, int(max_destinations or 8)))
PipelineMaxItems(p) ==
    Max2(1, Min2(20, IF p.explore_constraints.max_destinations \in {NoVal, 0}
                     THEN 8 ELSE p.explore_constraints.max_destinations))

(***************************************************************************)
(* The destination stage: a plan is submitted through the API or the       *)
(* wizard, then run_plan_pipeline expands its destinations.                *)
(***************************************************************************)
MaxDestRuns == 2

DestInit ==
    /\ clock = StartClock
    /\ plan = NoPlan
    /\ candidates = {}
    /\ flights = {}
    /\ hotels = {}
    /\ tours = {}
    /\ packages = {}
    /\ returned = <<>>
    /\ builds = 0
    /\ sortArg = ""
    /\ lastCall = NoCall
    /\ scoreArgs = NoScoreArgs
    /\ scoreResult = NoScore
    /\ airports \in AirportPools
    /\ destCall = NoDestCall
    /\ ServicesIdle
    /\ StageIdle

\* PlanStartAPIView.post
SubmitApi ==
    /\ plan = NoPlan
    /\ \E raw \in ApiPayloads :
          /\ PlanStartValid(raw)
          /\ plan' = PlanDefaults(PlanStartData(raw))
    /\ UNCHANGED <<clock, candidates, flights, hotels, tours, packages, returned, builds,
                   sortArg, lastCall, scoreArgs, scoreResult, airports, destCall, serviceVars,
                   stageVars>>

\* wizard_view, POST
SubmitWizard ==
    /\ plan = NoPlan
    /\ \E form \in WizardForms :
          /\ WizardValid(form)
          /\ plan' = PlanDefaults(to_plan_payload(form))
    /\ UNCHANGED <<clock, candidates, flights, hotels, tours, packages, returned, builds,
                   sortArg, lastCall, scoreArgs, scoreResult, airports, destCall, serviceVars,
                   stageVars>>

\* build_destination_candidates(plan, max_items)
BuildDestinationCandidates(p, max_items) ==
    LET deleted == {c.id : c \in {c \in candidates : c.plan = p.id}}
        airport_codes == IF p.search_mode = "direct"
                         THEN _direct_airports(p)
                         ELSE _explore_airports(p, max_items)
        records == DestinationRecords(p, airport_codes, max_items, destCall.runs + 1)
    IN  /\ candidates' = {c \in candidates : c.plan # p.id} \cup records
        /\ flights' = {f \in flights : f.candidate_id \notin deleted}
        /\ hotels' = {h \in hotels : h.candidate_id \notin deleted}
        /\ tours' = {t \in tours : t.candidate_id \notin deleted}
        /\ packages' = {pk \in packages : pk.candidate \notin deleted}
        /\ destCall' = [called |-> TRUE,
                        runs |-> destCall.runs + 1,
                        plan |-> p.id,
                        search_mode |-> p.search_mode,
                        max_items |-> max_items,
                        pool |-> {a.iata : a \in ExplorePool(p)},
                        scores |-> {<<a.iata, ExploreScore(p, a).score>> :
                                        a \in {a \in ExplorePool(p) : a.coords # NoVal}},
                        airport_codes |-> airport_codes]
        /\ UNCHANGED <<clock, plan, returned, builds, sortArg, lastCall, scoreArgs,
                       scoreResult, airports, serviceVars, stageVars>>

\* run_plan_pipeline up to the destination stage
ExpandDestinations ==
    /\ plan # NoPlan
    /\ destCall.runs < MaxDestRuns
    /\ BuildDestinationCandidates(plan, PipelineMaxItems(plan))

DestNext == SubmitApi \/ SubmitWizard \/ ExpandDestinations

SpecDest == DestInit /\ [][DestNext]_vars

(***************************************************************************)
(* plan_service.py: create_plan_request, called concurrently.  Each call   *)
(* runs its own transaction; a row written by an open transaction is seen  *)
(* by that transaction only, and an insert waits while another open        *)
(* transaction holds a row with the same user and idempotency key.         *)
(***************************************************************************)
MaxCalls == 3

Calls == 1..MaxCalls

\* the retries of the loop "for attempt in range(4)"
MaxAttempt == 3

\* the user and the idempotency key of a call; "" stands for no key
CallInputList == <<<<1, "wizard:a">>, <<1, "wizard:b">>, <<2, "wizard:a">>, <<1, "">>>>

\* which input each call gets; the calls are interchangeable, so the choices
\* are taken in ascending order
CallChoices ==
    {choice \in [Calls -> 1..Len(CallInputList)] :
        \A c, d \in Calls : c < d => choice[c] <= choice[d]}

Vendors == {"sqlite", "postgresql"}

NewCall(input) ==
    [user |-> input[1], idempotency_key |-> input[2], pc |-> "idle", attempt |-> 0,
     plan |-> 0, created |-> FALSE, integrity_error |-> FALSE, on_commit |-> <<>>]

\* the rows a transaction reads: the committed ones and its own
VisibleRows(c) == {r \in planRequests : r.committed \/ r.owner = c}

\* PlanRequest.objects.get(**lookup), 0 for DoesNotExist
GetPlan(c, user, key) ==
    IF \E r \in VisibleRows(c) : r.user = user /\ r.idempotency_key = key
    THEN (CHOOSE r \in VisibleRows(c) : r.user = user /\ r.idempotency_key = key).id
    ELSE 0

\* the table has no unique constraint
NoUniqueConstraint(rows, user, key) == FALSE

\* UniqueConstraint(fields=["user", "idempotency_key"]): NULL keys never collide
UniqueViolation(rows, user, key) ==
    key # "" /\ \E r \in rows : r.committed /\ r.user = user /\ r.idempotency_key = key

\* another open transaction holds a row with this user and key
InsertWaits(c, user, key) ==
    key # "" /\ \E r \in planRequests :
                    ~r.committed /\ r.owner # c /\ r.user = user /\ r.idempotency_key = key

\* the callback runs as soon as it is registered
call_immediately(callbacks, plan_id) == [run_now |-> <<plan_id>>, deferred |-> callbacks]

\* transaction.on_commit(func) inside an atomic block
on_commit(callbacks, plan_id) == [run_now |-> <<>>, deferred |-> Append(callbacks, plan_id)]

\* the row of PlanRequest.objects.create(**defaults); the id is fresh
NewPlanRow(c) ==
    [id |-> (10 * c) + calls[c].attempt, user |-> calls[c].user,
     idempotency_key |-> calls[c].idempotency_key, status |-> "queued",
     committed |-> FALSE, owner |-> c]

ReleaseLock(c) == IF createLock = c THEN 0 ELSE createLock

CreateInit ==
    /\ clock = StartClock
    /\ plan = NoPlan
    /\ candidates = {}
    /\ flights = {}
    /\ hotels = {}
    /\ tours = {}
    /\ packages = {}
    /\ returned = <<>>
    /\ builds = 0
    /\ sortArg = ""
    /\ lastCall = NoCall
    /\ scoreArgs = NoScoreArgs
    /\ scoreResult = NoScore
    /\ DestIdle
    /\ vendor \in Vendors
    /\ planRequests = {}
    /\ calls \in {[c \in Calls |-> NewCall(CallInputList[choice[c]])] : choice \in CallChoices}
    /\ createLock = 0
    /\ delayCalls = <<>>
    /\ brokerQueue = <<>>
    /\ StageIdle

CreateUnchanged ==
    UNCHANGED <<clock, plan, candidates, flights, hotels, tours, packages, returned, builds,
                sortArg, lastCall, scoreArgs, scoreResult, destVars, vendor, stageVars>>

\* with _plan_create_lock_context(): with transaction.atomic():
EnterAtomic(c) ==
    /\ calls[c].pc = "idle"
    /\ vendor = "sqlite" => createLock = 0
    /\ createLock' = IF vendor = "sqlite" THEN c ELSE createLock
    /\ calls' = [calls EXCEPT ![c].pc = IF calls[c].idempotency_key # "" THEN "lookup"
                                        ELSE "create"]
    /\ UNCHANGED <<planRequests, delayCalls, brokerQueue>>
    /\ CreateUnchanged

\* get_or_create: the SELECT
Lookup(c) ==
    /\ calls[c].pc = "lookup"
    /\ LET found == GetPlan(c, calls[c].user, calls[c].idempotency_key)
       IN  calls' = [calls EXCEPT ![c].pc = IF found # 0 THEN "commit" ELSE "insert",
                                  ![c].plan = found,
                                  ![c].created = FALSE]
    /\ UNCHANGED <<planRequests, createLock, delayCalls, brokerQueue>>
    /\ CreateUnchanged

\* get_or_create: the INSERT, then "if created: transaction.on_commit(...)";
\* an IntegrityError is answered by PlanRequest.objects.get(**lookup)
Insert(c) ==
    /\ calls[c].pc \in {"insert", "create"}
    /\ ~InsertWaits(c, calls[c].user, calls[c].idempotency_key)
    /\ IF UniqueViolation(planRequests, calls[c].user, calls[c].idempotency_key)
       THEN /\ calls' = [calls EXCEPT ![c].pc = "commit",
                                      ![c].plan = GetPlan(c, calls[c].user, calls[c].idempotency_key),
                                      ![c].created = FALSE,
                                      ![c].integrity_error = TRUE]
            /\ UNCHANGED <<planRequests, delayCalls>>
       ELSE LET row == NewPlanRow(c)
                registered == on_commit(calls[c].on_commit, row.id)
            IN  /\ planRequests' = planRequests \cup {row}
                /\ delayCalls' = delayCalls \o registered.run_now
                /\ calls' = [calls EXCEPT ![c].pc = "commit",
                                          ![c].plan = row.id,
                                          ![c].created = TRUE,
                                          ![c].on_commit = registered.deferred]
    /\ UNCHANGED <<createLock, brokerQueue>>
    /\ CreateUnchanged

\* the atomic block ends: COMMIT
Commit(c) ==
    /\ calls[c].pc = "commit"
    /\ planRequests' = {IF r.owner = c THEN [r EXCEPT !.committed = TRUE] ELSE r : r \in planRequests}
    /\ calls' = [calls EXCEPT ![c].pc = IF calls[c].on_commit # <<>> THEN "on_commit" ELSE "done"]
    /\ createLock' = IF calls[c].on_commit # <<>> THEN createLock ELSE ReleaseLock(c)
    /\ UNCHANGED <<delayCalls, brokerQueue>>
    /\ CreateUnchanged

\* _enqueue_plan_pipeline, run by the commit; the broker takes the message or
\* delay() raises and the plan is marked FAILED
EnqueuePlanPipeline(c) ==
    /\ calls[c].pc = "on_commit"
    /\ LET plan_id == Head(calls[c].on_commit)
       IN  /\ delayCalls' = Append(delayCalls, plan_id)
           /\ \/ /\ brokerQueue' = Append(brokerQueue, plan_id)
                 /\ UNCHANGED planRequests
              \/ /\ planRequests' = {IF r.id = plan_id THEN [r EXCEPT !.status = "failed"] ELSE r
                                        : r \in planRequests}
                 /\ UNCHANGED brokerQueue
    /\ calls' = [calls EXCEPT ![c].pc = IF Len(calls[c].on_commit) > 1 THEN "on_commit" ELSE "done",
                              ![c].on_commit = Tail(@)]
    /\ createLock' = IF Len(calls[c].on_commit) > 1 THEN createLock ELSE ReleaseLock(c)
    /\ CreateUnchanged

\* how often the database is found locked in one run
MaxLockFailures == 4

RECURSIVE LockFailures(_)
LockFailures(n) ==
    IF n = 0 THEN 0
    ELSE calls[n].attempt + (IF calls[n].pc = "raised" THEN 1 ELSE 0) + LockFailures(n - 1)

\* OperationalError "database is locked": the transaction is rolled back, the
\* call sleeps and tries again, and gives up after the fourth failure
DatabaseLocked(c) ==
    /\ vendor = "sqlite"
    /\ calls[c].pc \in {"lookup", "create", "commit"}
    /\ LockFailures(MaxCalls) < MaxLockFailures
    /\ planRequests' = {r \in planRequests : r.committed \/ r.owner # c}
    /\ calls' = [calls EXCEPT ![c].pc = IF calls[c].attempt >= MaxAttempt THEN "raised" ELSE "idle",
                              ![c].attempt = IF calls[c].attempt >= MaxAttempt THEN @ ELSE @ + 1,
                              ![c].plan = 0,
                              ![c].created = FALSE,
                              ![c].on_commit = <<>>]
    /\ createLock' = ReleaseLock(c)
    /\ UNCHANGED <<delayCalls, brokerQueue>>
    /\ CreateUnchanged

CreateNext ==
    \E c \in Calls :
        \/ EnterAtomic(c)
        \/ Lookup(c)
        \/ Insert(c)
        \/ Commit(c)
        \/ EnqueuePlanPipeline(c)
        \/ DatabaseLocked(c)

SpecCreate == CreateInit /\ [][CreateNext]_vars

(***************************************************************************)
(* tasks.py: the end of the pipeline of one plan.  tours_stage_complete    *)
(* starts one places task per candidate, the chord calls                   *)
(* places_stage_complete with their results, which dispatches              *)
(* build_packages_task.                                                    *)
(***************************************************************************)
\* a record with the fields of both, those of extra taking precedence
Merge(row, extra) ==
    [x \in (DOMAIN row) \cup (DOMAIN extra) |-> IF x \in DOMAIN extra THEN extra[x] ELSE row[x]]

\* a URL, by what _is_search_result_url reads of it
ItemUrl ==
    [blank |-> FALSE, searchresults_in_path |-> FALSE, search_in_path |-> FALSE,
     search_in_query |-> FALSE, q_in_query |-> FALSE, getyourguide |-> FALSE]

BlankUrl == [ItemUrl EXCEPT !.blank = TRUE]

SearchResultsUrl == [ItemUrl EXCEPT !.searchresults_in_path = TRUE]

\* "q=" in the query of a URL that is not of getyourguide.com
QueryUrl == [ItemUrl EXCEPT !.q_in_query = TRUE]

_is_search_result_url(url) ==
    \/ url.blank
    \/ url.searchresults_in_path
    \/ url.search_in_path
    \/ url.search_in_query
    \/ (url.q_in_query /\ url.getyourguide)

\* link_type__iexact="search"
IsSearchLinkType(link_type) == link_type \in {"search", "Search", "SEARCH"}

CONCRETE_OFFER_UNSUPPORTED_ERROR ==
    "Provider does not support item offers; cannot build concrete package"

\* (link_type, deeplink_url) of the flight rows and of the hotel rows
FlightLinkCases ==
    {<<"item", ItemUrl>>, <<"Search", ItemUrl>>, <<"item", SearchResultsUrl>>, <<"item", QueryUrl>>}

HotelLinkCases == {<<"item", ItemUrl>>, <<"item", BlankUrl>>, <<"search", ItemUrl>>}

WithLinks(rows, link) == {Merge(r, [link_type |-> link[1], deeplink_url |-> link[2]]) : r \in rows}

StageCandidates == {Merge(c, [places_source |-> "", places_partial |-> FALSE]) : c \in CandidateRows}

\* what fetch_places_result gives: places, a partial answer, or an exception
PlacesOutcomes == {"ok", "partial", "raised"}

\* the dict fetch_places_for_candidate returns
PlacesTaskResult(candidate_id, outcome) ==
    [candidate_id |-> candidate_id,
     ok |-> outcome = "ok",
     partial |-> outcome = "partial",
     error |-> IF outcome = "ok" THEN "" ELSE "places source unavailable"]

\* _set_status(plan, status, message, percent, error_message=...)
_set_status(status, message, percent, error_message) ==
    [status |-> status, progress_percent |-> percent, progress_message |-> message,
     error_message |-> error_message]

\* the places stage fails the plan when a places task failed
FailOnPlacesFailure(failed, total) ==
    IF failed > 0
    THEN _set_status("failed", "Places failed.", 100, "Places failed.")
    ELSE _set_status("scoring", <<"Scoring packages...", 0, 0>>, 88, "")

\* the status places_stage_complete sets
PlacesStageStatus(failed, total) ==
    _set_status("scoring",
                IF total > 0 /\ failed > 0
                THEN <<"Scoring packages... (places partial)", failed, total>>
                ELSE <<"Scoring packages...", 0, 0>>,
                88, "")

\* the plan is completed whatever the number of packages
AlwaysCompleted(package_count) ==
    _set_status("completed", <<"Found ranked links-only packages.", package_count>>, 100, "")

\* the status build_packages_task sets after the build
BuildOutcomeStatus(package_count) ==
    IF package_count = 0
    THEN _set_status("failed", "No package estimates returned for this search.", 100,
                     "No package combinations available.")
    ELSE _set_status("completed", <<"Found ranked links-only packages.", package_count>>, 100, "")

StageInit ==
    /\ clock = StartClock
    /\ plan = ExactPlan
    /\ candidates = StageCandidates
    /\ \E pool \in FlightPools, link \in FlightLinkCases : flights = WithLinks(pool, link)
    /\ \E pool \in HotelPools, link \in HotelLinkCases : hotels = WithLinks(pool, link)
    /\ tours \in TourPools
    /\ packages = {}
    /\ returned = <<>>
    /\ builds = 0
    /\ sortArg = "best_value"
    /\ lastCall = NoCall
    /\ scoreArgs = NoScoreArgs
    /\ scoreResult = NoScore
    /\ DestIdle
    /\ ServicesIdle
    /\ planStatus = _set_status("fetching_tours", "Fetching tours...", 62, "")
    /\ placesPending = {}
    /\ placesResults = <<>>
    /\ taskQueue = {"tours_stage_complete"}
    /\ finishedTasks = {}
    /\ fxAvailable \in BOOLEAN
    /\ RunIdle

\* what a stage task leaves alone besides the tables it writes
StageUnchanged == UNCHANGED <<clock, plan, sortArg, scoreArgs, scoreResult, extraVars, fxAvailable, runVars>>

\* tours_stage_complete(results, plan_id)
ToursStageComplete ==
    /\ "tours_stage_complete" \in taskQueue
    /\ planStatus' = _set_status("fetching_places", "Fetching must-see places...", 76, "")
    /\ placesPending' = {c.id : c \in {c \in candidates : c.plan = plan.id}}
    /\ taskQueue' = taskQueue \ {"tours_stage_complete"}
    /\ finishedTasks' = finishedTasks \cup {[task |-> "tours_stage_complete", raised |-> FALSE]}
    /\ UNCHANGED <<candidates, flights, hotels, tours, packages, returned, builds, lastCall,
                   placesResults>>
    /\ StageUnchanged

\* fetch_places_for_candidate(plan_id, candidate_id); the chord calls
\* places_stage_complete when the last of them has returned
FetchPlacesForCandidate(candidate_id) ==
    /\ candidate_id \in placesPending
    /\ \E outcome \in PlacesOutcomes :
          /\ placesResults' = placesResults @@ (candidate_id :> PlacesTaskResult(candidate_id, outcome))
          /\ candidates' = IF outcome = "raised" THEN candidates
                           ELSE {IF c.id = candidate_id
                                 THEN [c EXCEPT !.places_source = IF outcome = "ok" THEN "external" ELSE "fallback",
                                                !.places_partial = (outcome = "partial")]
                                 ELSE c : c \in candidates}
    /\ placesPending' = placesPending \ {candidate_id}
    /\ taskQueue' = IF placesPending' = {} THEN taskQueue \cup {"places_stage_complete"} ELSE taskQueue
    /\ UNCHANGED <<flights, hotels, tours, packages, returned, builds, lastCall, planStatus,
                   finishedTasks>>
    /\ StageUnchanged

\* places_stage_complete(results, plan_id)
PlacesStageComplete ==
    /\ "places_stage_complete" \in taskQueue
    /\ LET total == Cardinality(DOMAIN placesResults)
           failed == Cardinality({c \in DOMAIN placesResults : ~placesResults[c].ok})
       IN  planStatus' = PlacesStageStatus(failed, total)
    /\ taskQueue' = (taskQueue \ {"places_stage_complete"}) \cup {"build_packages_task"}
    /\ finishedTasks' = finishedTasks \cup {[task |-> "places_stage_complete", raised |-> FALSE]}
    /\ UNCHANGED <<candidates, flights, hotels, tours, packages, returned, builds, lastCall,
                   placesPending, placesResults>>
    /\ StageUnchanged

\* the plan has an option that is a search link
HasSearchLinks ==
    \/ \E r \in flights \cup hotels : r.plan = plan.id /\ IsSearchLinkType(r.link_type)
    \/ \E r \in flights : r.plan = plan.id /\ _is_search_result_url(r.deeplink_url)
    \/ \E r \in hotels : r.plan = plan.id /\ _is_search_result_url(r.deeplink_url)

\* build_packages_task(plan_id)
BuildPackagesTask ==
    /\ "build_packages_task" \in taskQueue
    /\ taskQueue' = taskQueue \ {"build_packages_task"}
    /\ IF HasSearchLinks
       THEN /\ planStatus' = _set_status("failed", CONCRETE_OFFER_UNSUPPORTED_ERROR, 100,
                                         CONCRETE_OFFER_UNSUPPORTED_ERROR)
            /\ finishedTasks' = finishedTasks \cup {[task |-> "build_packages_task", raised |-> FALSE]}
            /\ UNCHANGED <<candidates, flights, hotels, tours, packages, returned, builds, lastCall>>
            /\ StageUnchanged
       ELSE IF ~fxAvailable
       THEN /\ planStatus' = _set_status("failed", "Package build failed.", 100,
                                         "exchange rate request failed")
            /\ finishedTasks' = finishedTasks \cup {[task |-> "build_packages_task", raised |-> TRUE]}
            /\ UNCHANGED <<candidates, flights, hotels, tours, packages, returned, builds, lastCall>>
            /\ StageUnchanged
       ELSE /\ BuildPackagesFor(plan, "best_value", 1, 1)
            /\ planStatus' = BuildOutcomeStatus(Cardinality({pk \in packages' : pk.plan = plan.id}))
            /\ finishedTasks' = finishedTasks \cup {[task |-> "build_packages_task", raised |-> FALSE]}
            /\ UNCHANGED <<fxAvailable, runVars>>
    /\ UNCHANGED <<placesPending, placesResults>>

StageNext ==
    \/ ToursStageComplete
    \/ \E c \in placesPending : FetchPlacesForCandidate(c)
    \/ PlacesStageComplete
    \/ BuildPackagesTask

SpecStage == StageInit /\ [][StageNext]_vars

\* a task that was dispatched is run: it leaves the queue
TaskLeavesQueue(task) == task \in taskQueue /\ taskQueue' = taskQueue \ {task}

\* every dispatched task is run in the end; build_packages_task is the one
\* step that takes "build_packages_task" out of the queue
SpecStageLive ==
    /\ SpecStage
    /\ WF_vars(ToursStageComplete)
    /\ WF_vars(\E c \in placesPending : FetchPlacesForCandidate(c))
    /\ WF_vars(PlacesStageComplete)
    /\ WF_taskQueue(TaskLeavesQueue("build_packages_task"))

(***************************************************************************)
(* Two plans side by side: build_destination_candidates and                *)
(* build_packages_for_plan run for either of them, in any order.           *)
(***************************************************************************)
PlanA ==
    Merge(ExactPlan,
          [origin_iata |-> "JFK", search_mode |-> "direct", destination_iata |-> "CDG",
           destination_iatas |-> <<"CDG", "NRT">>, destination_country |-> "FR",
           flight_filters |-> [max_duration_minutes |-> NoVal],
           explore_constraints |-> [country_code |-> "", max_destinations |-> NoVal]])

PlanB ==
    Merge(FlexiblePlan,
          [id |-> 2, origin_iata |-> "JFK", search_mode |-> "explore", destination_iata |-> "",
           destination_iatas |-> <<>>, destination_country |-> "XX",
           flight_filters |-> [max_duration_minutes |-> NoVal],
           explore_constraints |-> [country_code |-> "", max_destinations |-> 2]])

Plans == {PlanA, PlanB}

\* the same candidates for plan B, under ids of their own
CandidatesOfB == {[c EXCEPT !.id = @ + 100, !.plan = PlanB.id] : c \in CandidateRows}

\* the same options for plan B, under ids of their own
OptionsOfB(rows) ==
    {[r EXCEPT !.id = @ + 100, !.plan = PlanB.id, !.candidate_id = @ + 100] : r \in rows}

PlansInit ==
    /\ clock = StartClock
    /\ plan = PlanA
    /\ candidates = CandidateRows \cup CandidatesOfB
    /\ \E pool \in FlightPools \ {{}} : flights = pool \cup OptionsOfB(pool)
    /\ \E pool \in HotelPools \ {{}} : hotels = pool \cup OptionsOfB(pool)
    /\ \E pool \in TourPools : tours = pool \cup OptionsOfB(pool)
    /\ packages = {}
    /\ returned = <<>>
    /\ builds = 0
    /\ sortArg = "best_value"
    /\ lastCall = NoCall
    /\ scoreArgs = NoScoreArgs
    /\ scoreResult = NoScore
    /\ airports = {AirportJFK, AirportCDG, AirportNRT}
    /\ destCall = NoDestCall
    /\ ServicesIdle
    /\ StageIdle

\* build_packages_for_plan(p, sort_mode="best_value", max_packages=1, ...)
PlansBuild(p) ==
    /\ BuildPackagesFor(p, sortArg, 1, 1)
    /\ UNCHANGED stageVars

\* build_destination_candidates(p, max_items)
PlansCandidates(p) ==
    /\ destCall.runs < MaxDestRuns
    /\ BuildDestinationCandidates(p, PipelineMaxItems(p))

PlansNext == \E p \in Plans : PlansBuild(p) \/ PlansCandidates(p)

SpecPlans == PlansInit /\ [][PlansNext]_vars

(***************************************************************************)
(* build_packages_for_plan with max_packages = 5 for a plan whose first    *)
(* candidate has three tours.                                              *)
(***************************************************************************)
TourSeine ==
    [id |-> 3, plan |-> 1, candidate_id |-> 1, total_price |-> 2500, currency |-> "USD",
     link_confidence |-> 45, content |-> "Seine cruise", created_at |-> 12, last_checked_at |-> 23]

ThreeTours == {TourLouvre, TourSearch, TourSeine}

\* two more flights and one more hotel of the second candidate, which has no tours
FlightTokyoLate ==
    [id |-> 5, plan |-> 1, candidate_id |-> 2, total_price |-> 9000, currency |-> "USD",
     stops |-> 1, duration_minutes |-> 700, link_confidence |-> 90, content |-> "NH-via-ICN",
     created_at |-> 12, last_checked_at |-> 22, raw_payload |-> NoFlightRaw]

FlightTokyoEarly ==
    [id |-> 6, plan |-> 1, candidate_id |-> 2, total_price |-> 9500, currency |-> "USD",
     stops |-> 1, duration_minutes |-> 650, link_confidence |-> 90, content |-> "KE-via-ICN",
     created_at |-> 12, last_checked_at |-> 22, raw_payload |-> NoFlightRaw]

HotelCapsule ==
    [id |-> 4, plan |-> 1, candidate_id |-> 2, total_price |-> 8000, currency |-> "USD",
     star_rating |-> 20, guest_rating |-> 75, link_confidence |-> 90, content |-> "Capsule Inn",
     created_at |-> 12, last_checked_at |-> 22, raw_payload |-> NoHotelRaw]

\* one flight of the first candidate; its flights with one of the second;
\* one of its flights with three of the second
TourFlightPools ==
    {{FlightDirect}, {FlightDirect, FlightViaHub, FlightTokyo},
     {FlightDirect, FlightTokyo, FlightTokyoLate, FlightTokyoEarly}}

TourHotelPools ==
    {{HotelLutece}, {HotelLutece, HotelAuberge, HotelRyokan},
     {HotelLutece, HotelRyokan, HotelCapsule}}

ToursInit ==
    /\ clock = StartClock
    /\ plan \in PlanChoices
    /\ candidates = CandidateRows
    /\ flights \in TourFlightPools
    /\ hotels \in TourHotelPools
    /\ tours = ThreeTours
    /\ packages = {}
    /\ returned = <<>>
    /\ builds = 0
    /\ sortArg \in SortModeArgs
    /\ lastCall = NoCall
    /\ scoreArgs = NoScoreArgs
    /\ scoreResult = NoScore
    /\ ExtraIdle

\* build_packages_for_plan(plan, sort_mode, max_packages=5)
BuildTopFive ==
    /\ BuildPackages(sortArg, 5, 3)
    /\ UNCHANGED stageVars

ToursNext ==
    \/ Tick
    \/ BuildTopFive

SpecTours == ToursInit /\ [][ToursNext]_vars

(***************************************************************************)
(* score_package, _timezone_offset_hours and _rough_travel_time_minutes    *)
(* called with missing or wrongly typed values.  NoVal stands for None; a  *)
(* tag is a value with its Python type; a weight that float() rejects is   *)
(* NoVal.  The outcome of a call is the exception it raises ("" for none)  *)
(* and the value it returns.                                               *)
(***************************************************************************)
StrTag(s) == [kind |-> "str", s |-> s]

\* a tag that is not a string, as a JSON list of numbers gives
IntTag(s) == [kind |-> "int", s |-> s]

\* (preference_weights, candidate_tags)
TypedPreferenceCases ==
    {<<EmptyWeights, {IntTag("7")}>>,
     <<EmptyWeights, {StrTag("beach")}>>,
     <<[x \in {"beach", "food"} |-> IF x = "beach" THEN 3 ELSE NoVal], {StrTag("beach"), StrTag("culture")}>>,
     <<[x \in {"beach", "food"} |-> NoVal], {StrTag("beach")}>>,
     <<[x \in {"beach", "food"} |-> IF x = "beach" THEN 3 ELSE 1], {StrTag("food"), IntTag("7")}>>}

TypedSeasons == {NoVal, 92, 250}

TypedNonstop == {NoVal, 55, 140}

TypedScoreInputs ==
    {[given |-> TRUE, fn |-> "score_package",
      total_minor |-> 42500, budget_minor |-> bm,
      preference_weights |-> pf[1], candidate_tags |-> pf[2],
      season_multiplier |-> sm, distance_band |-> db, nonstop_likelihood |-> nl,
      freshness_at |-> fa, now |-> 24,
      timezone_delta_hours |-> 0, travel_time_minutes |-> 300, data_confidence |-> 4000] :
        bm \in {0, 50000}, pf \in TypedPreferenceCases, sm \in TypedSeasons,
        db \in {"short", ""}, nl \in TypedNonstop, fa \in {NoVal, 22}}

\* timezone names: none, known zones, a name ZoneInfo does not know
TimezoneNames == {"", "Europe/Paris", "Asia/Tokyo", "America/New_York", "Mars/Olympus"}

TimezoneInputs == {[given |-> TRUE, fn |-> "_timezone_offset_hours", timezone_name |-> n] : n \in TimezoneNames}

TravelTimeInputs ==
    {[given |-> TRUE, fn |-> "_rough_travel_time_minutes", origin_coords |-> o, dest_coords |-> d] :
        o \in {NoVal, 0, 300}, d \in {NoVal, 300, 5800, 10800}}

\* max(low, min(high, None)): '<' not supported between 'float' and 'NoneType'
ClampRaises(value) == value = NoVal

\* tag.lower() of a tag that is not a string, reached when weights are given
PreferenceMatchRaises(preference_weights, candidate_tags) ==
    /\ DOMAIN preference_weights # {}
    /\ \E tag \in candidate_tags : tag.kind # "str"

\* abs(None - 1.0): unsupported operand types
SeasonalFitRaises(season_multiplier) == season_multiplier = NoVal

\* the exception score_package raises, in the order of its component calls
ScorePackageRaises(a) ==
    IF ClampRaises(a.nonstop_likelihood) THEN "TypeError"
    ELSE IF PreferenceMatchRaises(a.preference_weights, a.candidate_tags) THEN "AttributeError"
    ELSE IF SeasonalFitRaises(a.season_multiplier) THEN "TypeError"
    ELSE ""

\* {tag.lower().strip() for tag in candidate_tags}
TagLabels(candidate_tags) == {tag.s : tag \in {t \in candidate_tags : t.kind = "str"}}

\* what a call of one of the three functions gives
CallOutcome(a) ==
    CASE a.fn = "score_package" ->
            IF ScorePackageRaises(a) # ""
            THEN [computed |-> TRUE, fn |-> a.fn, raised |-> ScorePackageRaises(a)]
            ELSE [computed |-> TRUE, fn |-> a.fn, raised |-> "",
                  value |-> score_package([a EXCEPT !.candidate_tags = TagLabels(a.candidate_tags)], a.now)]
      [] a.fn = "_timezone_offset_hours" ->
            [computed |-> TRUE, fn |-> a.fn, raised |-> "",
             value |-> _timezone_offset_hours(a.timezone_name)]
      [] a.fn = "_rough_travel_time_minutes" ->
            [computed |-> TRUE, fn |-> a.fn, raised |-> "",
             value |-> _rough_travel_time_minutes(a.origin_coords, a.dest_coords)]

TypedInit ==
    /\ clock = StartClock
    /\ plan = ExactPlan
    /\ candidates = {}
    /\ flights = {}
    /\ hotels = {}
    /\ tours = {}
    /\ packages = {}
    /\ returned = <<>>
    /\ builds = 0
    /\ sortArg = ""
    /\ lastCall = NoCall
    /\ scoreArgs \in TypedScoreInputs \cup TimezoneInputs \cup TravelTimeInputs
    /\ scoreResult = NoScore
    /\ ExtraIdle

TypedUnchanged ==
    UNCHANGED <<clock, plan, candidates, flights, hotels, tours, packages, returned,
                builds, sortArg, lastCall, scoreArgs, extraVars, stageVars>>

\* score_package(**scoreArgs)
TypedScoreCall ==
    /\ scoreArgs.fn = "score_package"
    /\ ~scoreResult.computed
    /\ scoreResult' = CallOutcome(scoreArgs)
    /\ TypedUnchanged

\* _timezone_offset_hours(timezone_name)
TimezoneCall ==
    /\ scoreArgs.fn = "_timezone_offset_hours"
    /\ ~scoreResult.computed
    /\ scoreResult' = CallOutcome(scoreArgs)
    /\ TypedUnchanged

\* _rough_travel_time_minutes(origin_coords, dest_coords)
TravelTimeCall ==
    /\ scoreArgs.fn = "_rough_travel_time_minutes"
    /\ ~scoreResult.computed
    /\ scoreResult' = CallOutcome(scoreArgs)
    /\ TypedUnchanged

TypedNext ==
    \/ TypedScoreCall
    \/ TimezoneCall
    \/ TravelTimeCall

SpecTyped == TypedInit /\ [][TypedNext]_vars

(***************************************************************************)
(* build_packages_for_plan step by step: the delete statement commits on   *)
(* its own (autocommit), the rows are created inside transaction.atomic(). *)
(***************************************************************************)
ReplaceInit ==
    /\ clock = StartClock
    /\ plan = ExactPlan
    /\ candidates = CandidateRows
    /\ flights \in FlightPools
    /\ hotels \in HotelPools
    /\ tours \in TourPools
    /\ packages = {}
    /\ returned = <<>>
    /\ builds = 0
    /\ sortArg \in SortModeArgs
    /\ lastCall = NoCall
    /\ scoreArgs = NoScoreArgs
    /\ scoreResult = NoScore
    /\ ExtraIdle

\* what a step of the build leaves alone among the stage variables
ReplaceUnchanged ==
    UNCHANGED <<planStatus, placesPending, placesResults, taskQueue, finishedTasks, fxAvailable,
                pipelinePc, chordPending, chordResults, retries>>

\* PackageOption.objects.filter(plan=plan).delete(), outside any transaction
ReplaceDelete ==
    /\ buildRun.pc = "idle"
    /\ builds < MaxBuilds
    /\ packages' = DeletePackages(packages, plan.id)
    /\ buildRun' = [pc |-> "deleted", prior |-> {pk \in packages : pk.plan = plan.id}]
    /\ UNCHANGED <<clock, plan, candidates, flights, hotels, tours, returned, builds, sortArg,
                   lastCall, scoreArgs, scoreResult, extraVars>>
    /\ ReplaceUnchanged

\* the combinations are built and the atomic block commits every row
ReplacePersist ==
    /\ buildRun.pc = "deleted"
    /\ BuildPackages(sortArg, 5, 3)
    /\ buildRun' = [pc |-> "idle", prior |-> buildRun.prior, outcome |-> "returned"]
    /\ ReplaceUnchanged

\* a create() inside the atomic block raises: the block is rolled back and
\* the exception leaves build_packages_for_plan
ReplacePersistFails ==
    /\ buildRun.pc = "deleted"
    /\ \E flight_rows \in OrderedReads({r \in flights : r.plan = plan.id}),
          hotel_rows \in OrderedReads({r \in hotels : r.plan = plan.id}),
          tour_rows \in OrderedReads({r \in tours : r.plan = plan.id}) :
          CreatedPackages(plan, {c \in candidates : c.plan = plan.id}, flight_rows, hotel_rows,
                          tour_rows, IF sortArg = "" THEN "budget_first" ELSE sortArg,
                          5, 3, 3, builds + 1, clock) # <<>>
    /\ buildRun' = [pc |-> "idle", prior |-> buildRun.prior, outcome |-> "raised"]
    /\ builds' = builds + 1
    /\ UNCHANGED <<clock, plan, candidates, flights, hotels, tours, packages, returned, sortArg,
                   lastCall, scoreArgs, scoreResult, extraVars>>
    /\ ReplaceUnchanged

ReplaceNext ==
    \/ ReplaceDelete
    \/ ReplacePersist
    \/ ReplacePersistFails

SpecReplace == ReplaceInit /\ [][ReplaceNext]_vars

(***************************************************************************)
(* _tour_bundle_variants called directly on tour lists of every length up  *)
(* to MaxTours.                                                            *)
(***************************************************************************)
MaxTours == 5

\* lists of distinct tours, each of at most n of them
RECURSIVE TourLists(_)
TourLists(n) ==
    IF n = 0 THEN {<<>>}
    ELSE LET shorter == TourLists(n - 1)
             longest == {l \in shorter : Len(l) = n - 1}
         IN  shorter \cup
             UNION {{Append(l, [id |-> i]) : i \in (1..MaxTours) \ {l[k].id : k \in DOMAIN l}} :
                       l \in longest}

BundleInputs == {[given |-> TRUE, fn |-> "_tour_bundle_variants", tours |-> l] : l \in TourLists(MaxTours)}

BundleInit ==
    /\ clock = StartClock
    /\ plan = ExactPlan
    /\ candidates = {}
    /\ flights = {}
    /\ hotels = {}
    /\ tours = {}
    /\ packages = {}
    /\ returned = <<>>
    /\ builds = 0
    /\ sortArg = ""
    /\ lastCall = NoCall
    /\ scoreArgs \in BundleInputs
    /\ scoreResult = NoScore
    /\ ExtraIdle

\* _tour_bundle_variants(tours), max_bundles left at its default
BundleCall ==
    /\ scoreArgs.fn = "_tour_bundle_variants"
    /\ ~scoreResult.computed
    /\ scoreResult' = [computed |-> TRUE, fn |-> scoreArgs.fn,
                       value |-> _tour_bundle_variants(scoreArgs.tours, 5)]
    /\ UNCHANGED <<clock, plan, candidates, flights, hotels, tours, packages, returned,
                   builds, sortArg, lastCall, scoreArgs, extraVars, stageVars>>

BundleNext == BundleCall

SpecBundles == BundleInit /\ [][BundleNext]_vars

(***************************************************************************)
(* tasks.py: one pipeline run of one plan, from run_plan_pipeline to the   *)
(* end.  run_plan_pipeline sets the first statuses and sends a chord of    *)
(* flight-signal tasks; each chord callback sets the next status and sends *)
(* the next chord.  With a broker (CELERY_BROKER_URL set) every task is a  *)
(* message of its own; without one (CELERY_TASK_ALWAYS_EAGER) the tasks    *)
(* run inside the call that sends them and their exceptions reach          *)
(* run_plan_pipeline.                                                      *)
(***************************************************************************)
\* the status create_plan_request stores with a new plan
QueuedStatus == _set_status("queued", "Queued for airport-to-airport planning", 5, "")

ValidatingStatus == _set_status("validating", "Validating airport request...", 8, "")

ExpandingStatus == _set_status("expanding_destinations", "Expanding destination airports...", 16, "")

NoCandidatesStatus ==
    _set_status("failed", "No destination airports found for this request.", 100,
                "No destination candidates available.")

FlightSignalsStatus == _set_status("fetching_flight_signals", "Fetching flight signals...", 30, "")

\* the status of the except branch of run_plan_pipeline
PipelineFailedStatus == _set_status("failed", "Plan pipeline failed.", 100, "exception")

UnsupportedStatus ==
    _set_status("failed", CONCRETE_OFFER_UNSUPPORTED_ERROR, 100, CONCRETE_OFFER_UNSUPPORTED_ERROR)

\* the hotels stage is announced with the progress of an earlier stage
HotelSignalsStatusBehind == _set_status("fetching_hotel_signals", "Fetching hotel signals...", 26, "")

HotelSignalsStatus == _set_status("fetching_hotel_signals", "Fetching hotel signals...", 46, "")

ToursStatus == _set_status("fetching_tours", "Fetching tours...", 62, "")

PlacesStatus == _set_status("fetching_places", "Fetching must-see places...", 76, "")

\* what the provider answers to a flight-signal task
FlightOutcomes == {"ok", "timeout", "rate_limit", "unsupported", "unknown"}

\* what the entity builders of the hotel and tour tasks do
FetchOutcomes == {"ok", "raised"}

\* the dict a per-candidate fetch task returns
FetchTaskResult(candidate_id, outcome) ==
    [candidate_id |-> candidate_id,
     ok |-> outcome = "ok",
     error |-> CASE outcome = "ok" -> ""
                 [] outcome = "unsupported" -> CONCRETE_OFFER_UNSUPPORTED_ERROR
                 [] OTHER -> outcome]

\* the flight-signal task retries instead of returning
\* (error_type in {TIMEOUT, RATE_LIMIT} and self.request.retries < 2)
RetriesFlightSignals(outcome, request_retries) ==
    outcome \in {"timeout", "rate_limit"} /\ request_retries < 2

\* chord([task.s(plan_id, cid) for cid in candidate_ids]): the header tasks
ChordHeader(task, rows) == {[task |-> task, candidate_id |-> c.id] : c \in rows}

PlanCandidates == {c \in candidates : c.plan = plan.id}

\* the row _persist_candidate_options creates for a candidate: an item link
PersistedFlights(candidate_id) ==
    {r \in WithLinks({FlightDirect, FlightTokyo}, <<"item", ItemUrl>>) :
        r.candidate_id = candidate_id}

PersistedHotels(candidate_id) ==
    {r \in WithLinks({HotelLutece, HotelRyokan}, <<"item", ItemUrl>>) :
        r.candidate_id = candidate_id}

\* the TourOption rows fetch_tours_for_candidate stores
PersistedTours(candidate_id) == {r \in {TourLouvre, TourSearch} : r.candidate_id = candidate_id}

\* an item of the results carries the error of an unsupported provider
HasUnsupportedResult(results) ==
    \E c \in DOMAIN results : results[c].error = CONCRETE_OFFER_UNSUPPORTED_ERROR

\* the chord callbacks, which have no except branch
StageCallbacks ==
    {"flights_stage_complete", "hotels_stage_complete", "tours_stage_complete",
     "places_stage_complete"}

FinishedTask(task, raised) == [task |-> task, raised |-> raised]

PipelineInit ==
    /\ clock = StartClock
    /\ plan = ExactPlan
    /\ candidates = {}
    /\ flights = {}
    /\ hotels = {}
    /\ tours = {}
    /\ packages = {}
    /\ returned = <<>>
    /\ builds = 0
    /\ sortArg = "best_value"
    /\ lastCall = NoCall
    /\ scoreArgs = NoScoreArgs
    /\ scoreResult = NoScore
    /\ DestIdle
    /\ ServicesIdle
    /\ planStatus = QueuedStatus
    /\ placesPending = {}
    /\ placesResults = <<>>
    /\ taskQueue = {"run_plan_pipeline"}
    /\ finishedTasks = {}
    /\ fxAvailable \in BOOLEAN
    /\ RunIdle

\* what a step of the first stages leaves alone
PipelineUnchanged ==
    UNCHANGED <<clock, plan, packages, returned, builds, sortArg, lastCall, scoreArgs,
                scoreResult, extraVars, fxAvailable, buildRun, placesPending, placesResults>>

\* run_plan_pipeline(plan_id), up to the first _set_status
RunPlanPipelineValidate ==
    /\ "run_plan_pipeline" \in taskQueue
    /\ pipelinePc = ""
    /\ taskQueue' = taskQueue \ {"run_plan_pipeline"}
    /\ planStatus' = ValidatingStatus
    /\ pipelinePc' = "validating"
    /\ UNCHANGED <<candidates, flights, hotels, tours, finishedTasks, chordPending,
                   chordResults, retries>>
    /\ PipelineUnchanged

\* run_plan_pipeline, up to the second _set_status
RunPlanPipelineExpand ==
    /\ pipelinePc = "validating"
    /\ planStatus' = ExpandingStatus
    /\ pipelinePc' = "expanding"
    /\ UNCHANGED <<candidates, flights, hotels, tours, taskQueue, finishedTasks, chordPending,
                   chordResults, retries>>
    /\ PipelineUnchanged

\* run_plan_pipeline: build_destination_candidates returns no candidate or
\* the candidates of the plan
RunPlanPipelineCandidates ==
    /\ pipelinePc = "expanding"
    /\ \E rows \in {{}, StageCandidates} :
          /\ candidates' = rows
          /\ IF rows = {}
             THEN /\ planStatus' = NoCandidatesStatus
                  /\ pipelinePc' = "done"
                  /\ finishedTasks' = finishedTasks \cup {FinishedTask("run_plan_pipeline", FALSE)}
             ELSE /\ planStatus' = FlightSignalsStatus
                  /\ pipelinePc' = "dispatching"
                  /\ UNCHANGED finishedTasks
    /\ UNCHANGED <<flights, hotels, tours, taskQueue, chordPending, chordResults, retries>>
    /\ PipelineUnchanged

\* run_plan_pipeline: chord(jobs)(flights_stage_complete.s(plan_id)).  With
\* a broker the task ends here; without one the chord runs inside the call.
RunPlanPipelineDispatch ==
    /\ pipelinePc = "dispatching"
    /\ chordPending' = ChordHeader("fetch_flight_signals_for_candidate", PlanCandidates)
    /\ chordResults' = <<>>
    /\ retries' = [c \in {c.id : c \in PlanCandidates} |-> 0]
    /\ \E eager \in BOOLEAN :
          IF eager
          THEN pipelinePc' = "nested" /\ UNCHANGED finishedTasks
          ELSE /\ pipelinePc' = "done"
               /\ finishedTasks' = finishedTasks \cup {FinishedTask("run_plan_pipeline", FALSE)}
    /\ UNCHANGED <<candidates, flights, hotels, tours, planStatus, taskQueue>>
    /\ PipelineUnchanged

\* run_plan_pipeline: an exception of one of its own statements (the save,
\* the candidates, sending the chord) reaches the except branch
RunPlanPipelineRaises ==
    /\ pipelinePc \in {"validating", "expanding", "dispatching"}
    /\ planStatus' = PipelineFailedStatus
    /\ pipelinePc' = "done"
    /\ finishedTasks' = finishedTasks \cup {FinishedTask("run_plan_pipeline", TRUE)}
    /\ UNCHANGED <<candidates, flights, hotels, tours, taskQueue, chordPending, chordResults,
                   retries>>
    /\ PipelineUnchanged

\* run_plan_pipeline without a broker: the exception of a task that ran
\* inside the chord call reaches the except branch
RunPlanPipelineCatches ==
    /\ pipelinePc = "nested"
    /\ \E t \in finishedTasks : t.raised
    /\ planStatus' = PipelineFailedStatus
    /\ pipelinePc' = "done"
    /\ finishedTasks' = finishedTasks \cup {FinishedTask("run_plan_pipeline", TRUE)}
    /\ UNCHANGED <<candidates, flights, hotels, tours, taskQueue, chordPending, chordResults,
                   retries>>
    /\ PipelineUnchanged

\* run_plan_pipeline without a broker: the chord call returns
RunPlanPipelineReturns ==
    /\ pipelinePc = "nested"
    /\ taskQueue = {}
    /\ chordPending = {}
    /\ placesPending = {}
    /\ \A t \in finishedTasks : ~t.raised
    /\ pipelinePc' = "done"
    /\ finishedTasks' = finishedTasks \cup {FinishedTask("run_plan_pipeline", FALSE)}
    /\ UNCHANGED <<candidates, flights, hotels, tours, planStatus, taskQueue, chordPending,
                   chordResults, retries>>
    /\ PipelineUnchanged

\* the chord: the callback is sent when the last header task has returned
ChordReturns(header, result, callback) ==
    /\ chordPending' = chordPending \ {header}
    /\ chordResults' = chordResults @@ (header.candidate_id :> result)
    /\ taskQueue' = IF chordPending' = {} THEN taskQueue \cup {callback} ELSE taskQueue

\* fetch_flight_signals_for_candidate(plan_id, candidate_id)
FetchFlightSignalsForCandidate(candidate_id) ==
    LET header == [task |-> "fetch_flight_signals_for_candidate", candidate_id |-> candidate_id]
    IN  /\ header \in chordPending
        /\ \E outcome \in FlightOutcomes :
              IF RetriesFlightSignals(outcome, retries[candidate_id])
              THEN /\ retries' = [retries EXCEPT ![candidate_id] = @ + 1]
                   /\ UNCHANGED <<flights, hotels, chordPending, chordResults, taskQueue>>
              ELSE /\ flights' = IF outcome = "ok"
                                 THEN {r \in flights : r.candidate_id # candidate_id}
                                      \cup PersistedFlights(candidate_id)
                                 ELSE flights
                   /\ hotels' = IF outcome = "ok"
                                THEN {r \in hotels : r.candidate_id # candidate_id}
                                     \cup PersistedHotels(candidate_id)
                                ELSE hotels
                   /\ ChordReturns(header, FetchTaskResult(candidate_id, outcome),
                                   "flights_stage_complete")
                   /\ UNCHANGED retries
        /\ UNCHANGED <<candidates, tours, planStatus, finishedTasks, pipelinePc>>
        /\ PipelineUnchanged

\* flights_stage_complete(results, plan_id)
FlightsStageComplete ==
    /\ "flights_stage_complete" \in taskQueue
    /\ taskQueue' = taskQueue \ {"flights_stage_complete"}
    /\ finishedTasks' = finishedTasks \cup {FinishedTask("flights_stage_complete", FALSE)}
    /\ IF HasUnsupportedResult(chordResults)
       THEN /\ planStatus' = UnsupportedStatus
            /\ UNCHANGED <<chordPending, chordResults>>
       ELSE /\ planStatus' = HotelSignalsStatus
            /\ chordPending' = ChordHeader("fetch_hotel_signals_for_candidate", PlanCandidates)
            /\ chordResults' = <<>>
    /\ UNCHANGED <<candidates, flights, hotels, tours, pipelinePc, retries>>
    /\ PipelineUnchanged

\* fetch_hotel_signals_for_candidate(plan_id, candidate_id)
FetchHotelSignalsForCandidate(candidate_id) ==
    LET header == [task |-> "fetch_hotel_signals_for_candidate", candidate_id |-> candidate_id]
    IN  /\ header \in chordPending
        /\ \E outcome \in FetchOutcomes :
              ChordReturns(header, FetchTaskResult(candidate_id, outcome), "hotels_stage_complete")
        /\ UNCHANGED <<candidates, flights, hotels, tours, planStatus, finishedTasks, pipelinePc,
                       retries>>
        /\ PipelineUnchanged

\* hotels_stage_complete(results, plan_id)
HotelsStageComplete ==
    /\ "hotels_stage_complete" \in taskQueue
    /\ taskQueue' = taskQueue \ {"hotels_stage_complete"}
    /\ finishedTasks' = finishedTasks \cup {FinishedTask("hotels_stage_complete", FALSE)}
    /\ planStatus' = ToursStatus
    /\ chordPending' = ChordHeader("fetch_tours_for_candidate", PlanCandidates)
    /\ chordResults' = <<>>
    /\ UNCHANGED <<candidates, flights, hotels, tours, pipelinePc, retries>>
    /\ PipelineUnchanged

\* fetch_tours_for_candidate(plan_id, candidate_id)
FetchToursForCandidate(candidate_id) ==
    LET header == [task |-> "fetch_tours_for_candidate", candidate_id |-> candidate_id]
    IN  /\ header \in chordPending
        /\ \E outcome \in FetchOutcomes :
              /\ tours' = IF outcome = "ok"
                          THEN {r \in tours : r.candidate_id # candidate_id}
                               \cup PersistedTours(candidate_id)
                          ELSE tours
              /\ ChordReturns(header, FetchTaskResult(candidate_id, outcome), "tours_stage_complete")
        /\ UNCHANGED <<candidates, flights, hotels, planStatus, finishedTasks, pipelinePc, retries>>
        /\ PipelineUnchanged

\* the status a chord callback sets before it sends the next tasks
CallbackStatus(task) ==
    CASE task = "flights_stage_complete" -> HotelSignalsStatus
      [] task = "hotels_stage_complete" -> ToursStatus
      [] task = "tours_stage_complete" -> PlacesStatus
      [] OTHER -> PlacesStageStatus(Cardinality({c \in DOMAIN placesResults : ~placesResults[c].ok}),
                                    Cardinality(DOMAIN placesResults))

\* a chord callback raises: _set_status gives up on a locked database
\* (before the status is written) or the next tasks cannot be sent (after
\* it).  The exception leaves the task: there is no except branch.
StageCallbackRaises(task) ==
    /\ task \in taskQueue \cap StageCallbacks
    /\ taskQueue' = taskQueue \ {task}
    /\ finishedTasks' = finishedTasks \cup {FinishedTask(task, TRUE)}
    /\ \E written \in BOOLEAN :
          /\ written => ~(task = "flights_stage_complete" /\ HasUnsupportedResult(chordResults))
          /\ planStatus' = IF written THEN CallbackStatus(task) ELSE planStatus
    /\ UNCHANGED <<candidates, flights, hotels, tours, pipelinePc, chordPending, chordResults,
                   retries>>
    /\ PipelineUnchanged

\* the steps of the tasks before build_packages_task
PipelineStep ==
    \/ RunPlanPipelineValidate
    \/ RunPlanPipelineExpand
    \/ RunPlanPipelineCandidates
    \/ RunPlanPipelineDispatch
    \/ RunPlanPipelineRaises
    \/ RunPlanPipelineCatches
    \/ RunPlanPipelineReturns
    \/ \E c \in {h.candidate_id : h \in chordPending} : FetchFlightSignalsForCandidate(c)
    \/ FlightsStageComplete
    \/ \E c \in {h.candidate_id : h \in chordPending} : FetchHotelSignalsForCandidate(c)
    \/ HotelsStageComplete
    \/ \E c \in {h.candidate_id : h \in chordPending} : FetchToursForCandidate(c)
    \/ \E task \in StageCallbacks : StageCallbackRaises(task)
    \/ ToursStageComplete
    \/ \E c \in placesPending : FetchPlacesForCandidate(c)
    \/ PlacesStageComplete

PipelineNext == PipelineStep \/ BuildPackagesTask

SpecPipeline == PipelineInit /\ [][PipelineNext]_vars

\* every task and chord callback that was sent is run in the end
SpecPipelineLive ==
    /\ SpecPipeline
    /\ WF_vars(PipelineStep)
    /\ WF_taskQueue(TaskLeavesQueue("build_packages_task"))

(***************************************************************************)
(* Properties of build_packages_for_plan.                                  *)
(***************************************************************************)
FlightOf(pk) == CHOOSE r \in flights : r.id = pk.flight_option

HotelOf(pk) == CHOOSE r \in hotels : r.id = pk.hotel_option

ToursOf(pk) == {r \in tours : r.id \in pk.tour_options}

\* an amount of whole cents in the plan's currency, rounded half up
ConvertedCents(cents, currency) ==
    ((cents * get_rate(currency, OrStr(plan.search_currency, "USD"))) + 50) \div 100

TourCents(tour) ==
    IF tour.total_price > 0
    THEN ConvertedCents(tour.total_price, OrStr(tour.currency, OrStr(plan.search_currency, "USD")))
    ELSE 0

RECURSIVE SumTourCents(_)
SumTourCents(rows) ==
    IF rows = {} THEN 0
    ELSE LET r == CHOOSE x \in rows : TRUE
         IN  TourCents(r) + SumTourCents(rows \ {r})

\* C1: every persisted package's total price is exactly its flight amount
\* plus its hotel amount; the breakdown's total repeats it, the tours entry
\* of the breakdown is zero and the prices of the selected tours appear only
\* as the optional-tours amount.
C1_TotalIsFlightPlusHotel ==
    \A pk \in packages :
        /\ pk.total_price = pk.price_breakdown.flight + pk.price_breakdown.hotel
        /\ pk.amount_minor = pk.total_price
        /\ pk.price_breakdown.total = pk.total_price
        /\ pk.price_breakdown.package_total = pk.total_price
        /\ pk.price_breakdown.tours = 0
        /\ pk.price_breakdown.flight = ConvertedCents(FlightOf(pk).total_price, FlightOf(pk).currency)
        /\ pk.price_breakdown.optional_tours = SumTourCents(ToursOf(pk))

\* a package with two selected tours, one of them priced
C1_PackageWithPricedTour ==
    \E pk \in packages :
        /\ Cardinality(pk.tour_options) = 2
        /\ pk.price_breakdown.optional_tours > 0

\* C2: for every persisted package estimated_total_min <= total_price <=
\* estimated_total_max.
C2_TotalInsideEstimate ==
    \A pk \in packages :
        /\ pk.estimated_total_min <= pk.total_price
        /\ pk.total_price <= pk.estimated_total_max

\* one package whose estimate lay wholly above its total and one whose
\* estimate lay wholly below it
C2_EstimateMissedTotal ==
    /\ \E pk \in packages :
          EstimatedBand(plan, FlightOf(pk), HotelOf(pk)).min > Dec(pk.total_price)
    /\ \E pk \in packages :
          EstimatedBand(plan, FlightOf(pk), HotelOf(pk)).max < Dec(pk.total_price)

CheckedTimes(pk) ==
    {FlightOf(pk).last_checked_at, HotelOf(pk).last_checked_at}
    \cup {t.last_checked_at : t \in ToursOf(pk)}

\* C3: every persisted package's freshness_at is the oldest last_checked_at
\* among its flight, its hotel and its selected tours.
C3_FreshnessIsOldestCheck ==
    \A pk \in packages :
        /\ pk.freshness_at \in CheckedTimes(pk)
        /\ \A t \in CheckedTimes(pk) : pk.freshness_at <= t

\* a package whose oldest component is a selected tour, while a tour of the
\* same candidate that it did not select is older still
C3_TourIsOldest ==
    \E pk \in packages :
        /\ pk.tour_options # {}
        /\ pk.freshness_at < FlightOf(pk).last_checked_at
        /\ pk.freshness_at < HotelOf(pk).last_checked_at
        /\ \E t \in tours : /\ t.candidate_id = pk.candidate
                            /\ t.id \notin pk.tour_options
                            /\ t.last_checked_at < pk.freshness_at

ReturnedSignatures == [i \in 1..Len(returned) |-> returned[i].signature]

C5_StoredIsLastReturned ==
    lastCall.called =>
        /\ {pk \in packages : pk.plan = plan.id} = Range(returned)
        /\ Cardinality(packages) = Len(returned)
        /\ \A i \in 1..Len(returned) : /\ returned[i].rank = i
                                       /\ returned[i].id = <<builds, i>>

\* a call that deleted packages of an earlier call and stored several
C5_Replaced ==
    /\ lastCall.called
    /\ lastCall.deleted > 0
    /\ Len(returned) >= 2

\* a second call with the arguments of the call before it
RepeatedCall ==
    /\ lastCall.called
    /\ builds' = builds + 1
    /\ lastCall'.sort_mode = lastCall.sort_mode
    /\ lastCall'.max_packages = lastCall.max_packages
    /\ lastCall'.per_city = lastCall.per_city

\* C6 as stated: two calls with the same sort mode, the same arguments and
\* the same rows return the same ranked sequence of content signatures,
\* whenever they run and in whatever order rows of equal price are read.
C6_SameRankingWheneverRun ==
    [][RepeatedCall =>
          [i \in 1..Len(returned') |-> returned'[i].signature] = ReturnedSignatures]_vars

HasFlights(c) == \E r \in flights : r.plan = plan.id /\ r.candidate_id = c.id

HasHotels(c) == \E r \in hotels : r.plan = plan.id /\ r.candidate_id = c.id

\* C7: a candidate without flights or without hotels contributes no package
\* and does not keep other candidates from contributing; when no candidate
\* has both, the call returns the empty list and stores nothing.
C7_IncompleteCandidatesSkipped ==
    lastCall.called =>
        /\ \A c \in candidates :
              (~HasFlights(c) \/ ~HasHotels(c)) => \A pk \in packages : pk.candidate # c.id
        /\ (\A c \in candidates : ~HasFlights(c) \/ ~HasHotels(c)) =>
              (returned = <<>> /\ packages = {})
        /\ \A c \in candidates :
              (HasFlights(c) /\ HasHotels(c) /\ lastCall.max_packages >= 1) =>
                  \/ \E pk \in packages : pk.candidate = c.id
                  \/ Len(returned) >= lastCall.max_packages

\* the first candidate has no hotel, a later one has both and got a package
C7_LaterCandidateServed ==
    /\ lastCall.called
    /\ \E c, d \in candidates : /\ c.rank < d.rank
                                /\ HasFlights(c) /\ ~HasHotels(c)
                                /\ HasFlights(d) /\ HasHotels(d)
                                /\ \E pk \in packages : pk.candidate = d.id

\* descending price-value score, then descending composite score, then
\* ascending total
ScoreThenTotal(a, b) ==
    \/ a.price_score > b.price_score
    \/ /\ a.price_score = b.price_score
       /\ \/ a.score > b.score
          \/ a.score = b.score /\ a.total_price <= b.total_price

\* descending price-value score, then ascending total, then descending
\* composite score
TotalThenScore(a, b) ==
    \/ a.price_score > b.price_score
    \/ /\ a.price_score = b.price_score
       /\ \/ a.total_price < b.total_price
          \/ a.total_price = b.total_price /\ a.score >= b.score

\* C8 as stated: under best_value, budget_first and the default the ranking
\* is by descending price-value score, then descending composite score, then
\* ascending total.
C8_ScoreBeforeTotal ==
    (lastCall.called /\ lastCall.sort_mode \in {"best_value", "budget_first", ""}) =>
        \A i, j \in 1..Len(returned) : i < j => ScoreThenTotal(returned[i], returned[j])

\* C8, amended: best_value ranks by descending price-value score, then
\* descending composite score, then ascending total; budget_first and the
\* default rank by descending price-value score, then ascending total, then
\* descending composite score.
C8_KeyPerMode ==
    /\ (lastCall.called /\ lastCall.sort_mode = "best_value") =>
          \A i, j \in 1..Len(returned) : i < j => ScoreThenTotal(returned[i], returned[j])
    /\ (lastCall.called /\ lastCall.sort_mode \in {"budget_first", ""}) =>
          \A i, j \in 1..Len(returned) : i < j => TotalThenScore(returned[i], returned[j])

\* a best_value ranking that puts a dearer package first for its score
C8_DearerRankedFirst ==
    /\ lastCall.called
    /\ lastCall.sort_mode = "best_value"
    /\ \E i, j \in 1..Len(returned) : /\ i < j
                                      /\ returned[i].price_score = returned[j].price_score
                                      /\ returned[i].score > returned[j].score
                                      /\ returned[i].total_price > returned[j].total_price

\* C9 as stated: under fewest_stops the ranking is by ascending stops, then
\* ascending duration, then ascending total; a nonstop flight never ranks
\* after a flight with stops.
C9_FewestStopsFirst ==
    (lastCall.called /\ lastCall.sort_mode = "fewest_stops") =>
        \A i, j \in 1..Len(returned) :
            i < j =>
                LET a == returned[i].component_summary
                    b == returned[j].component_summary
                IN  \/ a.stops < b.stops
                    \/ /\ a.stops = b.stops
                       /\ \/ a.duration_minutes < b.duration_minutes
                          \/ /\ a.duration_minutes = b.duration_minutes
                             /\ returned[i].total_price <= returned[j].total_price

(***************************************************************************)
(* Properties of score_package.                                            *)
(***************************************************************************)
SubScores(result) ==
    {result.breakdown.price_value, result.breakdown.convenience,
     result.breakdown.preference_match, result.breakdown.seasonal_fit,
     result.breakdown.safety_fallback, result.breakdown.freshness}

\* the weighted sum of the six sub-scores, in units of 1/10000 point
SumOfWeighted(result) ==
    (28 * result.breakdown.price_value) + (20 * result.breakdown.convenience)
    + (17 * result.breakdown.preference_match) + (13 * result.breakdown.seasonal_fit)
    + (12 * result.breakdown.safety_fallback) + (10 * result.breakdown.freshness)

\* C10 as stated: each sub-score lies in [0, 100], the composite equals the
\* weighted sum of the sub-scores and lies in [0, 100].
C10_CompositeIsWeightedSum ==
    scoreResult.computed =>
        /\ \A x \in SubScores(scoreResult.value) : 0 <= x /\ x <= 10000
        /\ 100 * scoreResult.value.score = SumOfWeighted(scoreResult.value)
        /\ 0 <= scoreResult.value.score /\ scoreResult.value.score <= 10000

\* C10, amended: each sub-score lies in [0, 100], the composite is the
\* weighted sum of the sub-scores rounded to two decimals (it differs from
\* the sum by at most 0.005) and lies in [0, 100].
C10_CompositeIsRoundedSum ==
    scoreResult.computed =>
        /\ \A x \in SubScores(scoreResult.value) : 0 <= x /\ x <= 10000
        /\ Abs((100 * scoreResult.value.score) - SumOfWeighted(scoreResult.value)) <= 50
        /\ 0 <= scoreResult.value.score /\ scoreResult.value.score <= 10000

\* a result whose weighted sum has more than two decimals, from arguments
\* that lie outside the ranges of the sub-scores
C10_RoundedResult ==
    /\ scoreResult.computed
    /\ SumOfWeighted(scoreResult.value) % 100 # 0
    /\ scoreArgs.nonstop_likelihood > 100
    /\ scoreArgs.data_confidence > 6000
    /\ scoreArgs.season_multiplier > 200

\* the convenience sub-score of the arguments a for a given distance base,
\* in hundredths: 0.45 base + 0.35 nonstop + 0.2 (100 - timezone penalty)
\* less the red-eye proxy, every term clamped as documented
ConvenienceOnBase(base, a) ==
    LET nonstop == Max2(0, Min2(100, a.nonstop_likelihood))
        penalty == Max2(0, Min2(38 * 180000, a.timezone_delta_hours * 810000))
        redeye == IF a.travel_time_minutes >= 420
                  THEN Max2(0, Min2(22 * 180000, (a.travel_time_minutes - 420) * 10000))
                  ELSE 0
        raw == (base * 81000) + (nonstop * 63000) + (((100 * 180000) - penalty) \div 5) - redeye
    IN  RoundHalfEven(Max2(0, Min2(100 * 180000, raw)), 1800)

\* the documented freshness steps, by age in hours
FreshnessStep(age_hours) ==
    IF age_hours <= 4 THEN 10000
    ELSE IF age_hours <= 24 THEN 8600
    ELSE IF age_hours <= 72 THEN 6800
    ELSE IF age_hours <= 168 THEN 5200
    ELSE 3400

KnownBands == {"short", "medium", "long", "ultra_long"}

\* C11: score_package falls back to the documented neutral values: budget
\* <= 0 gives price_value 55; an empty preference map gives preference_match
\* 62; preferences without a positive weight give 58; a missing freshness
\* timestamp gives freshness 42; a distance band outside the four known ones
\* is scored on base 68; and freshness is the step function of the snapshot
\* age (<= 4h 100, <= 24h 86, <= 72h 68, <= 168h 52, else 34), which never
\* rises with age.
C11_NeutralDefaults ==
    scoreResult.computed =>
        LET b == scoreResult.value.breakdown
            a == scoreArgs
        IN  /\ a.budget_minor <= 0 => b.price_value = 5500
            /\ DOMAIN a.preference_weights = {} => b.preference_match = 6200
            /\ (/\ DOMAIN a.preference_weights # {}
                /\ \A k \in DOMAIN a.preference_weights : a.preference_weights[k] <= 0)
                  => b.preference_match = 5800
            /\ a.freshness_at = NoVal => b.freshness = 4200
            /\ a.distance_band \notin KnownBands => b.convenience = ConvenienceOnBase(68, a)
            /\ a.freshness_at # NoVal =>
                  /\ b.freshness = FreshnessStep(Max2(0, a.now - a.freshness_at))
                  /\ \A fc \in ScoreFreshnessCases :
                        (fc[1] # NoVal /\ fc[2] - fc[1] >= a.now - a.freshness_at) =>
                            _component_freshness(fc[1], fc[2]) <= b.freshness

\* a call without budget, with preferences that carry no positive weight,
\* an unknown distance band and a snapshot a week old
C11_AllNeutral ==
    /\ scoreResult.computed
    /\ scoreArgs.budget_minor < 0
    /\ DOMAIN scoreArgs.preference_weights # {}
    /\ scoreResult.value.breakdown.preference_match = 5800
    /\ scoreArgs.distance_band \notin KnownBands
    /\ scoreArgs.now - scoreArgs.freshness_at = 168
    /\ scoreArgs.freshness_at # NoVal


(***************************************************************************)
(* Properties of the destination service.                                  *)
(***************************************************************************)
\* the plan's limit on the flight duration, 0 when none is set
DurationLimit ==
    IF plan.flight_filters.max_duration_minutes = NoVal
    THEN 0 ELSE plan.flight_filters.max_duration_minutes

\* the rough travel time from the plan's origin to an airport of the table
RoughTravelTime(code) ==
    LET origin == CHOOSE a \in airports : a.iata = plan.origin_iata
        destination == CHOOSE a \in airports : a.iata = code
    IN  IF origin.coords = NoVal \/ destination.coords = NoVal THEN 360
        ELSE LET minutes == 80 + ((Abs(origin.coords - destination.coords) * 60) \div 780)
             IN  IF minutes < 90 THEN 90 ELSE minutes

ExceedsLimit(code) == DurationLimit > 0 /\ RoughTravelTime(code) > DurationLimit

HasCoordinates(code) == \E a \in airports : a.iata = code /\ a.coords # NoVal

\* the last call of build_destination_candidates was an explore call
ExploreCalled == destCall.called /\ destCall.search_mode = "explore"

\* the scores of the last explore call mark exactly the airports over the limit
RejectionScores ==
    \A s \in destCall.scores :
        /\ (s[2] < 0) <=> ExceedsLimit(s[1])
        /\ (s[2] < 0) => s[2] = 0 - 9999

\* no returned airport is over the limit
NoneOverLimit ==
    \A i \in 1..Len(destCall.airport_codes) : ~ExceedsLimit(destCall.airport_codes[i])

\* C12 (as stated): with a positive duration limit, the score is -9999 for
\* exactly the airports whose rough travel time exceeds the limit, and explore
\* mode returns no such airport whenever some airport of the filtered pool is
\* within the limit.
C12_OverLimitNeverReturned ==
    (ExploreCalled /\ DurationLimit > 0) =>
        /\ RejectionScores
        /\ (\E code \in destCall.pool : ~ExceedsLimit(code)) => NoneOverLimit

\* C12 (amended): with a positive duration limit, the score is -9999 for
\* exactly the airports whose rough travel time exceeds the limit, and explore
\* mode returns no such airport whenever some airport of the filtered pool that
\* has coordinates is within the limit.
C12_OverLimitNeverReturnedIfScored ==
    (ExploreCalled /\ DurationLimit > 0) =>
        /\ RejectionScores
        /\ (\E code \in destCall.pool : HasCoordinates(code) /\ ~ExceedsLimit(code))
              => NoneOverLimit

\* C12 witness: an explore call with a limit, whose pool holds an airport over
\* the limit and a located airport within it
C12_OverLimitLeftOut ==
    /\ ExploreCalled
    /\ DurationLimit > 0
    /\ \E code \in destCall.pool : ExceedsLimit(code)
    /\ \E code \in destCall.pool : HasCoordinates(code) /\ ~ExceedsLimit(code)
    /\ destCall.airport_codes # <<>>


\* the country the explore pool is restricted to, "" for none
CountryFilter ==
    IF plan.destination_country \in {"", "XX", "**"}
    THEN plan.explore_constraints.country_code
    ELSE plan.destination_country

\* the airports other than the origin that match the country filter
FilteredPool ==
    {a.iata : a \in {a \in airports : /\ a.iata # plan.origin_iata
                                      /\ CountryFilter \in {"", a.country_code}}}

\* codes holds the first n codes of pool in ascending order
FirstInCodeOrder(codes, pool, n) ==
    /\ Len(codes) = (IF Cardinality(pool) < n THEN Cardinality(pool) ELSE n)
    /\ \A i \in 1..Len(codes) : codes[i] \in pool
    /\ \A i, j \in 1..Len(codes) : i < j => IataOrder(codes[i]) < IataOrder(codes[j])
    /\ \A code \in pool \ Range(codes) :
          \A i \in 1..Len(codes) : IataOrder(codes[i]) < IataOrder(code)

\* C13: in explore mode, if the duration limit rejects every airport of the
\* filtered pool, the result is the first N airports of the pool in ascending
\* code order; the result is empty only when the filtered pool is empty.
C13_FallbackIsFirstN ==
    ExploreCalled =>
        /\ destCall.pool = FilteredPool
        /\ (DurationLimit > 0 /\ \A code \in FilteredPool : ExceedsLimit(code))
              => FirstInCodeOrder(destCall.airport_codes, FilteredPool, destCall.max_items)
        /\ destCall.airport_codes = <<>> => FilteredPool = {}

\* C13 witness: every airport of a pool larger than N is over the limit
C13_AllRejected ==
    /\ ExploreCalled
    /\ DurationLimit > 0
    /\ \A code \in FilteredPool : ExceedsLimit(code)
    /\ Cardinality(FilteredPool) > destCall.max_items
    /\ Len(destCall.airport_codes) = destCall.max_items


\* the last call of build_destination_candidates was a direct call
DirectCalled == destCall.called /\ destCall.search_mode = "direct"

\* the plan's explicit destination airport codes
ExplicitDestinations ==
    plan.destination_iatas
    \o (IF plan.destination_iata # "" THEN <<plan.destination_iata>> ELSE <<>>)

\* the first position of a code in a list
FirstIndex(codes, code) ==
    CHOOSE k \in 1..Len(codes) : codes[k] = code /\ \A m \in 1..(k - 1) : codes[m] # code

\* the candidates of the plan are the codes of the list, each once, ranked in
\* the order of their first occurrence
CandidatesAreFirstOccurrences(codes) ==
    LET mine == {c \in candidates : c.plan = plan.id}
    IN  /\ {c.airport_code : c \in mine} = Range(codes)
        /\ \A c, d \in mine :
              c.rank < d.rank <=> FirstIndex(codes, c.airport_code) < FirstIndex(codes, d.airport_code)

\* the origin of the plan is among its candidates
OriginIsCandidate ==
    \E c \in candidates : c.plan = plan.id /\ c.airport_code = plan.origin_iata

\* C14: in direct mode the candidates of a plan are its explicit destination
\* codes, duplicates removed, in the order of first occurrence; the origin is
\* never among them; the codes are unique within the plan's candidates.
C14_DirectCandidatesAreDestinations ==
    DirectCalled =>
        /\ CandidatesAreFirstOccurrences(ExplicitDestinations)
        /\ ~OriginIsCandidate
        /\ \A c, d \in candidates :
              (c.plan = plan.id /\ d.plan = plan.id /\ c.airport_code = d.airport_code) => c = d


(***************************************************************************)
(* Properties of create_plan_request.                                      *)
(***************************************************************************)
\* how often run_plan_pipeline.delay was called with a plan id
DelayCount(plan_id) == Cardinality({i \in 1..Len(delayCalls) : delayCalls[i] = plan_id})

\* the calls made by a user with an idempotency key
CallsWith(user, key) == {c \in Calls : calls[c].user = user /\ calls[c].idempotency_key = key}

\* the PlanRequest rows of a user and an idempotency key
RowsWith(user, key) == {r \in planRequests : r.user = user /\ r.idempotency_key = key}

Finished(c) == calls[c].pc \in {"done", "raised"}

\* the users and the idempotency keys of the calls
KeyedCalls == {<<calls[c].user, calls[c].idempotency_key>> : c \in {c \in Calls : calls[c].idempotency_key # ""}}

\* C15: the create_plan_request calls of a user with one idempotency key,
\* whatever their interleaving, leave exactly one PlanRequest for that user
\* and key, every call that returns returns that plan, and
\* run_plan_pipeline.delay is called exactly once for it.
C15_OnePlanPerKey ==
    \A uk \in KeyedCalls :
        LET mine == CallsWith(uk[1], uk[2])
            rows == RowsWith(uk[1], uk[2])
        IN  /\ Cardinality(rows) <= 1
            /\ \A r \in rows : DelayCount(r.id) <= 1
            /\ \A c \in mine : calls[c].pc = "done" =>
                  /\ Cardinality(rows) = 1
                  /\ \A r \in rows : r.committed /\ calls[c].plan = r.id
            /\ ((\A c \in mine : Finished(c)) /\ (\E c \in mine : calls[c].pc = "done"))
                  => \A r \in rows : DelayCount(r.id) = 1

\* C15 witness: two calls with the same user and key have returned, one after
\* losing the race for the insert
C15_RaceLost ==
    \E c, d \in Calls :
        /\ c # d
        /\ calls[c].user = calls[d].user
        /\ calls[c].idempotency_key = calls[d].idempotency_key
        /\ calls[c].idempotency_key # ""
        /\ calls[c].pc = "done" /\ calls[c].created
        /\ calls[d].pc = "done" /\ calls[d].integrity_error

\* C16: run_plan_pipeline.delay is not called for a plan while the
\* transaction that creates it is open, and when the creating call has
\* returned it has been called exactly once, with the id of the plan.
C16_EnqueueAfterCommit ==
    /\ \A r \in planRequests : ~r.committed => DelayCount(r.id) = 0
    /\ \A i \in 1..Len(delayCalls) : \E r \in planRequests : r.committed /\ r.id = delayCalls[i]
    /\ \A c \in Calls :
          /\ (calls[c].pc \in {"lookup", "insert", "create", "commit"} /\ calls[c].plan # 0)
                => (calls[c].created => DelayCount(calls[c].plan) = 0)
          /\ (calls[c].pc = "done" /\ calls[c].created) => DelayCount(calls[c].plan) = 1

\* C16 witness: one call has created its plan and returned while another holds
\* a created plan in an open transaction
C16_OpenAndCommitted ==
    \E c, d \in Calls :
        /\ calls[c].pc = "done" /\ calls[c].created
        /\ calls[d].pc = "commit" /\ calls[d].created


(***************************************************************************)
(* Properties of the pipeline stages.                                      *)
(***************************************************************************)
TaskFinished(task) == \E done \in finishedTasks : done.task = task

TaskRaised(task) == \E done \in finishedTasks : done.task = task /\ done.raised

\* the packages of the plan
PlanPackages == {pk \in packages : pk.plan = plan.id}

PackageCanBeBuilt ==
    /\ \E c \in candidates :
          /\ c.plan = plan.id
          /\ \E f \in flights : f.plan = plan.id /\ f.candidate_id = c.id
          /\ \E h \in hotels : h.plan = plan.id /\ h.candidate_id = c.id
    /\ \A r \in flights \cup hotels :
          r.plan = plan.id => (r.link_type = "item" /\ r.deeplink_url \in {ItemUrl, QueryUrl})
    /\ fxAvailable

PlanCompleted == planStatus.status = "completed" /\ planStatus.progress_percent = 100

\* once places_stage_complete has run the plan is SCORING and the build is
\* dispatched, whatever the places results; the build then completes the plan
\* when a package can be built
PlacesNeverFail ==
    /\ (TaskFinished("places_stage_complete") /\ ~TaskFinished("build_packages_task"))
          => (planStatus.status = "scoring" /\ "build_packages_task" \in taskQueue)
    /\ (TaskFinished("build_packages_task") /\ PackageCanBeBuilt) => PlanCompleted

RowsOfOthers(plan_id) ==
    <<{c \in candidates : c.plan # plan_id},
      {r \in flights : r.plan # plan_id},
      {r \in hotels : r.plan # plan_id},
      {r \in tours : r.plan # plan_id},
      {pk \in packages : pk.plan # plan_id}>>

\* the packages of a plan reference candidates and options of that plan
OwnReferences(plan_id) ==
    \A pk \in packages :
        pk.plan = plan_id =>
            /\ \E c \in candidates : c.plan = plan_id /\ c.id = pk.candidate
            /\ \E r \in flights : r.plan = plan_id /\ r.id = pk.flight_option
            /\ \E r \in hotels : r.plan = plan_id /\ r.id = pk.hotel_option
            /\ \A t \in pk.tour_options : \E r \in tours : r.plan = plan_id /\ r.id = t

\* the step is a run of one of the two operations for this plan
RunFor(plan_id) ==
    \/ builds' # builds /\ lastCall'.plan = plan_id
    \/ destCall'.runs # destCall.runs /\ destCall'.plan = plan_id

\* C19: a run of build_destination_candidates or build_packages_for_plan for
\* one plan leaves the candidates, options and packages of every other plan
\* as they are, and the packages of the plan reference only its own
\* candidates and options.
C19_RunsStayInTheirPlan ==
    [][\A p \in Plans :
          RunFor(p.id) => (RowsOfOthers(p.id)' = RowsOfOthers(p.id) /\ OwnReferences(p.id)')]_vars

\* C19 witness: the two operations have run for different plans and the plan
\* of the build still has its packages
C19_NeighbourKept ==
    /\ destCall.called
    /\ lastCall.called
    /\ destCall.plan # lastCall.plan
    /\ \E pk \in packages : pk.plan = lastCall.plan


(***************************************************************************)
(* Properties of the tour bundles.                                         *)
(***************************************************************************)
\* a candidate of the plan has a flight, a hotel and three tours
CandidateWithThreeTours ==
    \E c \in candidates :
        /\ c.plan = plan.id
        /\ \E f \in flights : f.plan = plan.id /\ f.candidate_id = c.id
        /\ \E h \in hotels : h.plan = plan.id /\ h.candidate_id = c.id
        /\ Cardinality({t \in tours : t.plan = plan.id /\ t.candidate_id = c.id}) = 3

\* the selected_tour_option_ids values of the persisted packages
TourSelections == {pk.selected_tour_option_ids : pk \in {pk \in packages : pk.plan = plan.id}}

\* the pairs of a flight and a hotel of one candidate of the plan
Combinations ==
    {fh \in {f \in flights : f.plan = plan.id} \X {h \in hotels : h.plan = plan.id} :
        fh[1].candidate_id = fh[2].candidate_id}

\* C20 as stated: for every sort mode, when a candidate with a flight and a
\* hotel has three tours and max_packages = 5, the persisted packages carry
\* at least three distinct selected_tour_option_ids values.
C20_ThreeTourSelections ==
    (lastCall.called /\ lastCall.max_packages = 5 /\ CandidateWithThreeTours)
        => Cardinality(TourSelections) >= 3

\* C20: for every sort mode, when the plan's only pair of a flight and a
\* hotel belongs to a candidate with three tours and max_packages = 5, the
\* persisted packages carry at least three distinct
\* selected_tour_option_ids values.
C20_ThreeTourSelectionsOfOnePair ==
    (/\ lastCall.called
     /\ lastCall.max_packages = 5
     /\ CandidateWithThreeTours
     /\ Cardinality(Combinations) = 1)
        => Cardinality(TourSelections) >= 3

\* the one pair of the plan came out with five tour selections
C20_OnePairFiveSelections ==
    /\ lastCall.called
    /\ lastCall.max_packages = 5
    /\ CandidateWithThreeTours
    /\ Cardinality(Combinations) = 1
    /\ Cardinality({pk \in packages : pk.plan = plan.id}) = 5
    /\ Cardinality(TourSelections) = 5

\* C22: for a plan with a positive total budget, the price_score of each
\* package is computed from the ratio of the package total to that budget
\* (100 - |ratio - 0.85| * 120, clamped to [0, 100]).
C22_PriceScoreFromPlanBudget ==
    (lastCall.called /\ plan.total_budget > 0) =>
        \A pk \in {x \in packages : x.plan = plan.id} :
            pk.price_score = _component_price_value(pk.total_price, plan.total_budget)

(***************************************************************************)
(* Properties of the calls with missing or wrongly typed values.           *)
(***************************************************************************)
\* C21: score_package, _timezone_offset_hours and _rough_travel_time_minutes
\* never raise, whatever is missing or wrongly typed among their inputs;
\* they return a result.
C21_NoExceptionEscapes ==
    scoreResult.computed => scoreResult.raised = ""

(***************************************************************************)
(* Properties of the replacement of a plan's packages.                     *)
(***************************************************************************)
\* the package rows of the plan that are stored
StoredPackages == {pk \in packages : pk.plan = plan.id}

\* C23: replacing a plan's packages is atomic: while a build runs, and after
\* a build whose persistence step failed, the stored packages of the plan
\* are the complete prior set; after a build that returned they are the
\* complete new set.
C23_ReplaceIsAtomic ==
    /\ buildRun.pc = "deleted" => StoredPackages = buildRun.prior
    /\ (buildRun.pc = "idle" /\ buildRun # NoBuildRun) =>
          IF buildRun.outcome = "raised"
          THEN StoredPackages = buildRun.prior
          ELSE StoredPackages = Range(returned)

(***************************************************************************)
(* Properties of _tour_bundle_variants.                                    *)
(***************************************************************************)
\* the call of _tour_bundle_variants has returned
BundlesReturned == scoreResult.computed /\ scoreResult.fn = "_tour_bundle_variants"

TourIdsOf(bundle) == {bundle[i].id : i \in DOMAIN bundle}

\* C24: _tour_bundle_variants returns at most 5 bundles, each of at most 3
\* tours drawn from the first 4 tours of the list, no two bundles with the
\* same tour ids, the empty bundle among them; for an empty list the empty
\* bundle is the only one.
C24_BundlesAreBounded ==
    BundlesReturned =>
        LET bundles == scoreResult.value
            top == TourIdsOf(Prefix(scoreArgs.tours, 4))
        IN  /\ Len(bundles) <= 5
            /\ \A i \in DOMAIN bundles :
                  /\ Len(bundles[i]) <= 3
                  /\ TourIdsOf(bundles[i]) \subseteq top
            /\ \A i, j \in DOMAIN bundles : i # j => TourIdsOf(bundles[i]) # TourIdsOf(bundles[j])
            /\ \E i \in DOMAIN bundles : bundles[i] = <<>>
            /\ scoreArgs.tours = <<>> => bundles = << <<>> >>

\* five tours gave five bundles
C24_FiveBundlesOfFiveTours ==
    /\ BundlesReturned
    /\ Len(scoreArgs.tours) = 5
    /\ Len(scoreResult.value) = 5

\* C25: the bundles of a candidate contain the empty set, a single-tour
\* bundle for each of the top 4 tours, a pair when there are 2 or more tours
\* and a triple when there are 3 or more.
C25_SinglesPairsAndTriples ==
    BundlesReturned =>
        LET bundles == Range(scoreResult.value)
            top == Prefix(scoreArgs.tours, 4)
        IN  /\ <<>> \in bundles
            /\ \A i \in DOMAIN top : <<top[i]>> \in bundles
            /\ Len(top) >= 2 => \E b \in bundles : Len(b) = 2
            /\ Len(top) >= 3 => \E b \in bundles : Len(b) = 3

(***************************************************************************)
(* Properties of the deduplication of the persisted packages.              *)
(***************************************************************************)
\* candidate, flight signature and hotel signature of a package
VisiblePair(pk) == <<pk.signature[1], pk.signature[2], pk.signature[3]>>

\* C26 as stated: among the persisted packages of a plan no two have the
\* same candidate, flight signature and hotel signature.
C26_OnePackagePerVisiblePair ==
    lastCall.called =>
        \A pk, other \in StoredPackages : pk # other => VisiblePair(pk) # VisiblePair(other)

\* C26: among the persisted packages of a plan no two have the same content
\* signature (candidate, flight signature, hotel signature, tour signatures
\* and the four totals); packages of one flight and hotel pair differ in
\* their tour bundle.
C26_OnePackagePerSignature ==
    lastCall.called =>
        \A pk, other \in StoredPackages :
            pk # other =>
                /\ pk.signature # other.signature
                /\ VisiblePair(pk) = VisiblePair(other) => pk.signature[4] # other.signature[4]

\* the flight rows held a duplicate, and two stored packages of one flight
\* and hotel pair differ in their tours
C26_DuplicateRowsAndTourVariants ==
    /\ lastCall.called
    /\ \E i, j \in DOMAIN lastCall.flight_rows :
          /\ i # j
          /\ _flight_combo_signature(lastCall.flight_rows[i]) = _flight_combo_signature(lastCall.flight_rows[j])
    /\ \E pk, other \in StoredPackages :
          /\ pk # other
          /\ VisiblePair(pk) = VisiblePair(other)
          /\ pk.signature[4] # other.signature[4]

(***************************************************************************)
(* Properties of the ranking of explore mode.                              *)
(***************************************************************************)
\* the score _candidate_score gives an airport of the table for the plan
CandidateScoreOf(code) == ExploreScore(plan, CHOOSE a \in airports : a.iata = code).score

\* (-score, airport code) of an airport
RankKey(code) == <<0 - CandidateScoreOf(code), IataOrder(code)>>

\* the returned codes are at most N, without the origin and without duplicates
ExploreCodesBounded ==
    LET codes == destCall.airport_codes
    IN  /\ Len(codes) <= destCall.max_items
        /\ \A i \in DOMAIN codes : codes[i] # plan.origin_iata
        /\ \A i, j \in DOMAIN codes : i # j => codes[i] # codes[j]

\* C27 as stated: in explore mode the returned codes are at most N, without
\* the origin and without duplicates, ordered by descending score and then
\* ascending code, and no airport left out that the duration limit does not
\* reject has a strictly better (score, code) key than a returned one.
C27_ExploreRanking ==
    ExploreCalled =>
        LET codes == destCall.airport_codes
        IN  /\ ExploreCodesBounded
            /\ \A i, j \in DOMAIN codes : i < j => LexLess(RankKey(codes[i]), RankKey(codes[j]))
            /\ \A code \in destCall.pool \ Range(codes) :
                  CandidateScoreOf(code) >= 0 =>
                      \A i \in DOMAIN codes : ~LexLess(RankKey(code), RankKey(codes[i]))

\* C27: the same, for the airports that have coordinates: the returned ones
\* among them are in the order of descending score and ascending code, and
\* none of them that is left out and not rejected has a strictly better key
\* than a returned airport with coordinates.
C27_ExploreRankingOfLocated ==
    ExploreCalled =>
        LET codes == destCall.airport_codes
        IN  /\ ExploreCodesBounded
            /\ \A i, j \in DOMAIN codes :
                  (i < j /\ HasCoordinates(codes[i]) /\ HasCoordinates(codes[j]))
                      => LexLess(RankKey(codes[i]), RankKey(codes[j]))
            /\ \A code \in destCall.pool \ Range(codes) :
                  (HasCoordinates(code) /\ CandidateScoreOf(code) >= 0) =>
                      \A i \in DOMAIN codes :
                          HasCoordinates(codes[i]) => ~LexLess(RankKey(code), RankKey(codes[i]))

\* an explore call returned N airports and left out one that has coordinates
\* and is not rejected; the returned ones are not in code order
C27_RankedAndCut ==
    /\ ExploreCalled
    /\ Len(destCall.airport_codes) = destCall.max_items
    /\ \E code \in destCall.pool \ Range(destCall.airport_codes) :
          HasCoordinates(code) /\ CandidateScoreOf(code) >= 0
    /\ \E i, j \in DOMAIN destCall.airport_codes :
          i < j /\ IataOrder(destCall.airport_codes[i]) > IataOrder(destCall.airport_codes[j])

(***************************************************************************)
(* Properties of the prices shown with a package.                          *)
(***************************************************************************)
\* C28: in every persisted package the price shown for the selected hotel
\* (component_summary, and the first hotel entity, which is the same
\* payload) equals the hotel amount of price_breakdown, and the price shown
\* for the selected flight equals the flight amount.
C28_ShownPricesMatchBreakdown ==
    lastCall.called =>
        \A pk \in {x \in packages : x.plan = plan.id} :
            /\ pk.component_summary.hotel_price = pk.price_breakdown.hotel
            /\ pk.component_summary.flight_price = pk.price_breakdown.flight

(***************************************************************************)
(* Properties of one pipeline run.                                         *)
(***************************************************************************)
TerminalStatuses == {"completed", "failed"}

\* the place of a status in the order of the stages
StatusRank(status) ==
    CASE status = "queued" -> 0
      [] status = "validating" -> 1
      [] status = "expanding_destinations" -> 2
      [] status = "fetching_flight_signals" -> 3
      [] status = "fetching_hotel_signals" -> 4
      [] status = "fetching_tours" -> 5
      [] status = "fetching_places" -> 6
      [] status = "scoring" -> 7
      [] OTHER -> 8

\* C29: within one run the status only moves forward through the stages, one
\* stage at a time, to COMPLETED after SCORING or to FAILED from any stage;
\* progress_percent never decreases; a COMPLETED or FAILED status is not
\* changed again.
C29_StatusMovesForward ==
    [][/\ planStatus'.status # planStatus.status =>
             \/ planStatus'.status = "failed"
             \/ StatusRank(planStatus'.status) = StatusRank(planStatus.status) + 1
       /\ planStatus'.progress_percent >= planStatus.progress_percent
       /\ planStatus.status \in TerminalStatuses => planStatus'.status = planStatus.status]_vars

\* a run went through every stage and completed the plan
C29_CompletedThroughAllStages ==
    /\ planStatus.status = "completed"
    /\ pipelinePc = "done"
    /\ \A task \in StageCallbacks \cup {"run_plan_pipeline", "build_packages_task"} :
          [task |-> task, raised |-> FALSE] \in finishedTasks

\* C30: every run that was started puts the plan in COMPLETED or FAILED in
\* the end, when every task and chord callback that was sent is run.
C30_RunReachesTerminalStatus == <>(planStatus.status \in TerminalStatuses)

====
